---- MODULE Spec2Model ----
(***************************************************************************)
(* Order reconciliation and completion tracking of backend/api.py.         *)
(*                                                                         *)
(* An order (a Python dict) is a function from field names to values; a    *)
(* key the dict lacks is outside the function's DOMAIN.  Values are        *)
(* strings; the Python values None, True and False are the strings None,   *)
(* PyTrue and PyFalse.  The Turkish column names "Hazır" and "Gönderildi"  *)
(* are written "Hazir" and "Gonderildi".  A timestamp (datetime.now()) is  *)
(* the value of a counter that advances at every reading of the clock.     *)
(***************************************************************************)
EXTENDS Integers, Sequences, FiniteSets, TLC

VARIABLES
    orders_cache,          \* api.py: the global list orders_cache
    cache_file,            \* the contents of CACHE_FILE (orders_cache.json)
    manual_orders,         \* api.py: the global list manual_orders
    order_completion_log,  \* api.py: the global dict order_completion_log
    clock,                 \* number of clock readings so far
    uuids,                 \* number of uuid4() values drawn so far
    merge_thread,          \* the timer thread inside update_cache / sync_latest_orders
    edit_request           \* the request inside edit_order_fields

vars == <<orders_cache, cache_file, manual_orders, order_completion_log, clock, uuids,
          merge_thread, edit_request>>

----------------------------------------------------------------------------
(* Bounds *)

MaxBatch == 2        \* rows of a fetched batch (before any filler rows)
MaxClock == 3        \* clock readings in the general specifications
MaxManual == 2       \* manual orders in the store
MaxCache == 3       \* orders in the cache of the identity specification
MaxCompletions == 52 \* transitions into complete in the tracker specification

(* Program constants *)

LatestN == 20        \* sync_latest_orders: sorted_orders[:20]
HistoryCap == 50     \* update_order_completion_tracking: history[-50:]

----------------------------------------------------------------------------
(* Python values and dict access *)

None == "<None>"
PyTrue == "<True>"
PyFalse == "<False>"

\* dict.get(key)
Get(order, key) == IF key \in DOMAIN order THEN order[key] ELSE None

\* truthiness of a value: None, "", False are falsy
Truthy(v) == v \notin {None, "", PyFalse}

\* a or b
Or(a, b) == IF Truthy(a) THEN a ELSE b

\* order[key] = val
Put(order, key, val) ==
    [k \in (DOMAIN order) \cup {key} |-> IF k = key THEN val ELSE order[k]]

\* value.strip().lower() on the spellings the model uses
StripLower(s) ==
    CASE s \in {"TRUE", "True", " true "} -> "true"
      [] s \in {"FALSE", "False"} -> "false"
      [] s \in {"YES", "Yes"} -> "yes"
      [] s = "T" -> "t"
      [] s = "Y" -> "y"
      [] OTHER -> s

IsStr(v) == v \notin {None, PyTrue, PyFalse}

----------------------------------------------------------------------------
(* The identifier the merge code reads *)

\* update_cache / incremental_update_cache, fetched side:
\*   order.get('Transaction ID') or order.get('transaction')
FetchedTransaction(order) == Or(Get(order, "Transaction ID"), Get(order, "transaction"))

\* every cached-side lookup, sync_latest_orders (both sides), edit_order_fields:
\*   order.get('transaction') or order.get('Transaction ID')
CachedTransaction(order) == Or(Get(order, "transaction"), Get(order, "Transaction ID"))

\* the truthy identifiers of a list of cached orders
CachedIds(cache) ==
    {CachedTransaction(cache[i]) : i \in {j \in 1..Len(cache) : Truthy(CachedTransaction(cache[j]))}}

FirstIndex(cache, id) ==
    CHOOSE i \in 1..Len(cache) :
        /\ CachedTransaction(cache[i]) = id
        /\ \A j \in 1..(i - 1) : CachedTransaction(cache[j]) # id

LastIndex(cache, id) ==
    CHOOSE i \in 1..Len(cache) :
        /\ CachedTransaction(cache[i]) = id
        /\ \A j \in (i + 1)..Len(cache) : CachedTransaction(cache[j]) # id

----------------------------------------------------------------------------
(* Editable-field preserver *)

EDITABLE_FIELD_GROUPS ==
    << <<"Produce", "Kesildi">>, <<"Ready", "Hazir">>,
       <<"Shipped", "Gonderildi">>, <<"Note", "importantnote">> >>

EditableKeys ==
    {"Produce", "Ready", "Shipped", "Note", "Kesildi", "Hazir", "Gonderildi", "importantnote"}

\* the value preserve_editable_fields copies for one group
PreservedValue(source_order, group) ==
    IF group[2] \in DOMAIN source_order THEN source_order[group[2]]
    ELSE IF group[1] \in DOMAIN source_order THEN source_order[group[1]]
    ELSE None

RECURSIVE PreserveFrom(_, _, _)
PreserveFrom(target_order, source_order, i) ==
    IF i > Len(EDITABLE_FIELD_GROUPS) THEN target_order
    ELSE LET group == EDITABLE_FIELD_GROUPS[i]
             preserved_value == PreservedValue(source_order, group)
             next == IF preserved_value # None
                     THEN Put(Put(target_order, group[1], preserved_value),
                              group[2], preserved_value)
                     ELSE target_order
         IN  PreserveFrom(next, source_order, i + 1)

preserve_editable_fields(target_order, source_order) ==
    IF DOMAIN source_order = {} \/ DOMAIN target_order = {} THEN target_order
    ELSE PreserveFrom(target_order, source_order, 1)

----------------------------------------------------------------------------
(* Full replace: update_cache *)

\* the loop over new_orders (lines 1935-1941): acc is updated_cache,
\* seen is cached_transactions
RECURSIVE FullNewLoop(_, _, _, _, _)
FullNewLoop(new_orders, cache, i, acc, seen) ==
    IF i > Len(new_orders) THEN <<acc, seen>>
    ELSE LET order == new_orders[i]
             transaction_id == FetchedTransaction(order)
         IN  IF Truthy(transaction_id) /\ transaction_id \notin seen
             THEN LET merged == IF transaction_id \in CachedIds(cache)
                                THEN preserve_editable_fields(order, cache[FirstIndex(cache, transaction_id)])
                                ELSE order
                  IN  FullNewLoop(new_orders, cache, i + 1, Append(acc, merged),
                                  seen \cup {transaction_id})
             ELSE FullNewLoop(new_orders, cache, i + 1, acc, seen)

\* faulty variant: cached orders absent from the fetch are dropped
update_cache_drop_orphans(cache, new_orders) ==
    FullNewLoop(new_orders, cache, 1, <<>>, {})[1]

\* the new value of orders_cache after a successful fetch
update_cache_merge(cache, new_orders) ==
    LET r == FullNewLoop(new_orders, cache, 1, <<>>, {})
        updated_cache == r[1]
        cached_transactions == r[2]
        orphans == SelectSeq(cache, LAMBDA o :
                       /\ Truthy(CachedTransaction(o))
                       /\ CachedTransaction(o) \notin cached_transactions)
    IN  updated_cache \o orphans

----------------------------------------------------------------------------
(* Incremental: incremental_update_cache *)

\* new_orders_map (lines 1978-1982): the last fetched row of each identifier
NewOrdersMapIds(new_orders) ==
    {FetchedTransaction(new_orders[i]) :
        i \in {j \in 1..Len(new_orders) : Truthy(FetchedTransaction(new_orders[j]))}}

NewOrdersMap(new_orders, id) ==
    new_orders[CHOOSE i \in 1..Len(new_orders) :
                  /\ FetchedTransaction(new_orders[i]) = id
                  /\ \A j \in (i + 1)..Len(new_orders) : FetchedTransaction(new_orders[j]) # id]

\* lines 2011-2016: some non-editable field of the fetched row differs
order_changed(existing_order, new_order) ==
    \E key \in (DOMAIN new_order) \ EditableKeys : Get(existing_order, key) # new_order[key]

\* lines 1997-2026 for one cached identifier: the row that replaces the first
\* cached order of that identifier, or that order itself when nothing changed
IncrementalRow(cache, new_orders, id) ==
    LET existing_order == cache[FirstIndex(cache, id)]
        new_order == NewOrdersMap(new_orders, id)
    IN  IF order_changed(existing_order, new_order)
        THEN preserve_editable_fields(new_order, existing_order)
        ELSE existing_order

\* faulty variant: every cached identifier the fetch has counts as updated
updated_ids_all_fetched(cache, new_orders) ==
    CachedIds(cache) \cap NewOrdersMapIds(new_orders)

\* the identifiers whose cached row is replaced
UpdatedOrderIds(cache, new_orders) ==
    {id \in CachedIds(cache) \cap NewOrdersMapIds(new_orders) :
        order_changed(cache[FirstIndex(cache, id)], NewOrdersMap(new_orders, id))}

\* the cache after the incremental pass; appended is the list of new rows in
\* the order the set new_order_ids was iterated
incremental_merge(cache, new_orders, appended) ==
    [i \in 1..Len(cache) |->
        LET id == CachedTransaction(cache[i])
        IN  IF /\ Truthy(id)
               /\ id \in NewOrdersMapIds(new_orders)
               /\ i = FirstIndex(cache, id)
            THEN IncrementalRow(cache, new_orders, id)
            ELSE cache[i]] \o appended

\* the orders a set of new identifiers can be appended in
NewIdOrders(ids) ==
    {seq \in [1..Cardinality(ids) -> ids] :
        \A i, j \in 1..Len(seq) : i # j => seq[i] # seq[j]}

----------------------------------------------------------------------------
(* Latest-N quick sync: sync_latest_orders *)

\* get_order_date (lines 2148-2162) on the date literals of the model, as a
\* day number; datetime.min is 0, the clock fallback is later than any date
DateMin == 0
DateNow == 99999

get_order_date(order) ==
    LET date_str == Get(order, "Data")
    IN  IF ~Truthy(date_str) THEN DateMin
        ELSE CASE date_str = "01/02/2025" -> 20250102   \* %m/%d/%Y
               [] date_str = "02/01/2025" -> 20250201
               [] date_str = "13/40/2025" -> DateMin     \* strptime raises
               [] date_str = "03.01.2025" -> 20250103   \* %d.%m.%Y
               [] date_str = "2025-01-05" -> DateNow     \* neither separator
               [] OTHER -> DateMin

\* sorted(new_orders, key=get_order_date, reverse=True): descending by date,
\* rows of one date in the order they came in (the sort is stable)
RECURSIVE SortByDateDesc(_, _)
SortByDateDesc(new_orders, dates) ==
    IF dates = {} THEN <<>>
    ELSE LET latest == CHOOSE d \in dates : \A e \in dates : e <= d
         IN  SelectSeq(new_orders, LAMBDA o : get_order_date(o) = latest)
                 \o SortByDateDesc(new_orders, dates \ {latest})

latest_20(new_orders) ==
    LET sorted_orders ==
            SortByDateDesc(new_orders,
                           {get_order_date(new_orders[i]) : i \in 1..Len(new_orders)})
    IN  SubSeq(sorted_orders, 1, IF Len(sorted_orders) < LatestN THEN Len(sorted_orders) ELSE LatestN)

\* the loop over latest_20 (lines 2187-2198)
RECURSIVE LatestLoop(_, _, _, _, _)
LatestLoop(latest, cache, i, acc, processed) ==
    IF i > Len(latest) THEN <<acc, processed>>
    ELSE LET order == latest[i]
             transaction == CachedTransaction(order)
         IN  IF Truthy(transaction)
             THEN LET merged == IF transaction \in CachedIds(cache)
                                THEN preserve_editable_fields(order, cache[LastIndex(cache, transaction)])
                                ELSE order
                  IN  LatestLoop(latest, cache, i + 1, Append(acc, merged),
                                 processed \cup {transaction})
             ELSE LatestLoop(latest, cache, i + 1, acc, processed)

\* the new value of orders_cache after a successful fetch
sync_latest_merge(cache, new_orders) ==
    LET r == LatestLoop(latest_20(new_orders), cache, 1, <<>>, {})
        updated_orders == r[1]
        transactions_processed == r[2]
        kept == SelectSeq(cache, LAMBDA o :
                    /\ Truthy(CachedTransaction(o))
                    /\ CachedTransaction(o) \notin transactions_processed)
    IN  updated_orders \o kept

----------------------------------------------------------------------------
(* Completion tracker *)

\* candidates of get_order_identifier, after the explicit identifier
IdentifierKeys ==
    <<"transaction", "Transaction ID", "Transaction", "order_id", "Order ID", "__manualId", "id", "ID">>

RECURSIVE FirstCandidate(_, _)
FirstCandidate(order, i) ==
    IF i > Len(IdentifierKeys) THEN None
    ELSE IF Truthy(Get(order, IdentifierKeys[i])) THEN Get(order, IdentifierKeys[i])
         ELSE FirstCandidate(order, i + 1)

get_order_identifier(order, explicit_identifier) ==
    IF Truthy(explicit_identifier) THEN explicit_identifier ELSE FirstCandidate(order, 1)

normalize_flag_value(value) ==
    IF value = None THEN FALSE
    ELSE IF value \in {PyTrue, PyFalse} THEN value = PyTrue
    ELSE StripLower(value) \in {"true", "1", "yes", "y", "t"}

get_order_stage_flags(order) ==
    << normalize_flag_value(Or(Get(order, "Produce"), Get(order, "Kesildi"))),
       normalize_flag_value(Or(Get(order, "Ready"), Get(order, "Hazir"))),
       normalize_flag_value(Or(Get(order, "Shipped"), Get(order, "Gonderildi"))) >>

is_order_marked_complete(order) ==
    LET f == get_order_stage_flags(order) IN f[1] /\ f[2] /\ f[3]

\* order_completion_log.get(identifier, {}) and bool(entry.get("is_complete"))
WasComplete(log, identifier) ==
    identifier \in DOMAIN log /\ log[identifier].is_complete

HistoryOf(log, identifier) ==
    IF identifier \in DOMAIN log THEN log[identifier].history ELSE <<>>

\* faulty variant: the newest entries are the ones cut off
TrimHistoryOldest(history) ==
    IF Len(history) > HistoryCap THEN SubSeq(history, 1, HistoryCap) ELSE history

\* history[-50:] once the list is longer than 50
TrimHistory(history) ==
    IF Len(history) > HistoryCap
    THEN SubSeq(history, Len(history) - HistoryCap + 1, Len(history))
    ELSE history

\* the update reads the clock: the transition into complete
TrackerCompletes(log, order, explicit_identifier) ==
    LET identifier == get_order_identifier(order, explicit_identifier)
    IN  /\ Truthy(identifier)
        /\ is_order_marked_complete(order)
        /\ ~WasComplete(log, identifier)

\* faulty variant: level-triggered, a timestamp on every complete update
tracking_level_triggered(log, order, explicit_identifier, now) ==
    LET identifier == get_order_identifier(order, explicit_identifier)
    IN  IF ~Truthy(identifier) THEN log
        ELSE IF is_order_marked_complete(order)
        THEN Put(log, identifier,
                 [is_complete |-> TRUE, completed_at |-> <<now>>,
                  history |-> TrimHistory(Append(HistoryOf(log, identifier), now))])
        ELSE log

\* the log after update_order_completion_tracking(order, explicit_identifier);
\* now is the timestamp the clock gives if it is read
update_order_completion_tracking(log, order, explicit_identifier, now) ==
    LET identifier == get_order_identifier(order, explicit_identifier)
    IN  IF ~Truthy(identifier) THEN log
        ELSE IF is_order_marked_complete(order) /\ ~WasComplete(log, identifier)
        THEN Put(log, identifier,
                 [is_complete |-> TRUE, completed_at |-> <<now>>,
                  history |-> TrimHistory(Append(HistoryOf(log, identifier), now))])
        ELSE IF ~is_order_marked_complete(order) /\ WasComplete(log, identifier)
        THEN Put(log, identifier,
                 [log[identifier] EXCEPT !.is_complete = FALSE, !.completed_at = <<>>])
        ELSE log

\* faulty variant: the log keeps the entry
remove_entry_skipped(log, identifier) == log

remove_order_completion_entry(log, identifier) ==
    IF ~Truthy(identifier) THEN log
    ELSE [k \in (DOMAIN log) \ {identifier} |-> log[k]]

----------------------------------------------------------------------------
(* Sort keys *)

\* datetime.utcnow().isoformat() at clock reading t
NowStamp(t) == "2026-10-31T00:00:" \o (IF t < 10 THEN "0" ELSE "") \o ToString(t)

\* try_parse_order_date(value).isoformat() on the literals of the model;
\* None when the value is empty or parses under no format
ParsedIso(value) ==
    IF ~Truthy(value) THEN None
    ELSE CASE value = "01/02/2025" -> "2025-02-01T00:00:00"   \* %d/%m/%Y
           [] value = "02/01/2025" -> "2025-01-02T00:00:00"
           [] value = "03.01.2025" -> "2025-01-03T00:00:00"   \* %d.%m.%Y
           [] value = "2025-01-05" -> "2025-01-05T00:00:00"   \* ISO
           [] value = "13/40/2025" -> None
           [] value = "hello" -> None
           [] OTHER -> value                                   \* an ISO timestamp

DateCandidates == <<"tarih", "tarihh", "created_at", "_sortKey">>

RECURSIVE FirstParsed(_, _)
FirstParsed(order, i) ==
    IF i > Len(DateCandidates) THEN None
    ELSE IF ParsedIso(Get(order, DateCandidates[i])) # None
         THEN ParsedIso(Get(order, DateCandidates[i]))
         ELSE FirstParsed(order, i + 1)

\* determine_sort_key reads the clock when no candidate parses
SortKeyReadsClock(order) == FirstParsed(order, 1) = None

determine_sort_key(order, now) ==
    IF FirstParsed(order, 1) # None THEN FirstParsed(order, 1) ELSE NowStamp(now)

----------------------------------------------------------------------------
(* Field edits: edit_order_fields *)

PyStr(v) ==
    CASE v = None -> "None" [] v = PyTrue -> "True" [] v = PyFalse -> "False" [] OTHER -> v

field_mapping(frontend_field) ==
    CASE frontend_field = "Produce" -> "Kesildi"
      [] frontend_field = "Ready" -> "Hazir"
      [] frontend_field = "Shipped" -> "Gonderildi"
      [] frontend_field = "Note" -> "importantnote"
      [] OTHER -> frontend_field

requested_bool(value) ==
    IF IsStr(value) THEN StripLower(value) \in {"true", "1", "yes", "y"}
    ELSE value = PyTrue

\* lines 3849-3853: a non-administrator asks to clear a true Produce flag
ProduceClearRefused(order, frontend_field, value, is_admin) ==
    LET backend_field == field_mapping(frontend_field)
    IN  /\ backend_field \in {"Kesildi", "Hazir", "Gonderildi"} \/ frontend_field \in {"Produce", "Ready", "Shipped"}
        /\ backend_field \in {"Kesildi", "Produce"} \/ frontend_field \in {"Produce", "Kesildi"}
        /\ ~is_admin
        /\ normalize_flag_value(Or(Get(order, "Produce"), Get(order, "Kesildi")))
        /\ ~requested_bool(value)

\* one pass of the loop body (lines 3837-3870) that does not raise
ApplyUpdate(order, frontend_field, value, in_cache) ==
    LET backend_field == field_mapping(frontend_field)
        target_field == IF in_cache THEN backend_field ELSE frontend_field
        is_checkbox_field ==
            \/ backend_field \in {"Kesildi", "Hazir", "Gonderildi"}
            \/ frontend_field \in {"Produce", "Ready", "Shipped"}
        updated_value ==
            IF is_checkbox_field
            THEN (IF requested_bool(value) THEN "TRUE" ELSE "FALSE")
            ELSE PyStr(value)
        written == Put(order, target_field, updated_value)
    IN  IF target_field \in {"Kesildi", "Produce"} THEN Put(written, "Produce", updated_value)
        ELSE IF target_field \in {"Hazir", "Ready"} THEN Put(written, "Ready", updated_value)
        ELSE IF target_field \in {"Gonderildi", "Shipped"} THEN Put(written, "Shipped", updated_value)
        ELSE IF target_field \in {"importantnote", "Note"} THEN Put(written, "Note", updated_value)
        ELSE written

\* the loop over updates.items(): the order as the loop leaves it, and whether
\* it ended by raising the 403
RECURSIVE ApplyUpdates(_, _, _, _, _)
ApplyUpdates(order, updates, i, in_cache, is_admin) ==
    IF i > Len(updates) THEN [order |-> order, refused |-> FALSE]
    ELSE IF ProduceClearRefused(order, updates[i][1], updates[i][2], is_admin)
         THEN [order |-> order, refused |-> TRUE]
         ELSE ApplyUpdates(ApplyUpdate(order, updates[i][1], updates[i][2], in_cache),
                           updates, i + 1, in_cache, is_admin)

\* faulty variant: the cache is not searched, the manual store serves the edit
order_index_skipped(cache, transaction) == 0

\* lines 3808-3813: the first cached order of that transaction, 0 if none
OrderIndex(cache, transaction) ==
    LET hits == {i \in 1..Len(cache) :
                    PyStr(Or(Or(Get(cache[i], "transaction"), Get(cache[i], "Transaction ID")), "")) = transaction}
    IN  IF hits = {} THEN 0 ELSE CHOOSE i \in hits : \A j \in hits : i <= j

\* find_manual_by_transaction: index of the first manual order, 0 if none
ManualIndexByTransaction(manual, transaction) ==
    LET hits == {i \in 1..Len(manual) : PyStr(Get(manual[i], "transaction")) = transaction}
    IN  IF hits = {} THEN 0 ELSE CHOOSE i \in hits : \A j \in hits : i <= j

----------------------------------------------------------------------------
(* Manual order store *)

\* the fields of MANUAL_ORDER_FIELDS the model carries
MANUAL_ORDER_FIELDS ==
    {"buyername", "tarih", "created_at", "Note", "Produce", "Ready", "Shipped",
     "transaction", "_sortKey"}

DEFAULT_MANUAL_ORDER ==
    [k \in {"buyername", "tarih", "created_at", "Note", "Produce", "Ready", "Shipped",
            "transaction", "isManual"} |->
        CASE k \in {"Produce", "Ready", "Shipped"} -> "FALSE"
          [] k = "isManual" -> PyTrue
          [] OTHER -> ""]

\* str(uuid.uuid4()) for the n-th draw
Uuid4(n) ==
    CASE n = 1 -> "3f2a9c1e-58b1-4c6d-9a7e-0123456789ab"
      [] n = 2 -> "b07d44e2-1c3a-4f5b-8d9e-ba9876543210"
      [] n = 3 -> "0c9e8a7f-2b4d-4e6f-a1b2-c3d4e5f6a7b8"
      [] OTHER -> "77aa01bc-9d8e-4f7a-b6c5-00" \o ToString(1000000000 + n)

\* manual_id[:8].upper()
Prefix8Upper(manual_id) ==
    CASE manual_id = "3f2a9c1e-58b1-4c6d-9a7e-0123456789ab" -> "3F2A9C1E"
      [] manual_id = "b07d44e2-1c3a-4f5b-8d9e-ba9876543210" -> "B07D44E2"
      [] manual_id = "0c9e8a7f-2b4d-4e6f-a1b2-c3d4e5f6a7b8" -> "0C9E8A7F"
      [] manual_id = "order-7" -> "ORDER-7"
      [] OTHER -> "77AA01BC"

\* the payload reads uuid4()
BuildDrawsUuid(payload) == ~Truthy(Get(payload, "__manualId"))

\* the payload reads the clock for created_at
BuildReadsClock(payload) == ~Truthy(Get(payload, "created_at"))

\* copy of the payload fields over the defaults (lines 3048-3051)
WithPayloadFields(payload) ==
    LET supplied == {k \in (DOMAIN payload) \cap MANUAL_ORDER_FIELDS : payload[k] # None}
    IN  [k \in (DOMAIN DEFAULT_MANUAL_ORDER) \cup supplied |->
            IF k \in supplied THEN payload[k] ELSE DEFAULT_MANUAL_ORDER[k]]

build_manual_order(payload, uuid, now) ==
    LET manual_id == IF Truthy(Get(payload, "__manualId")) THEN PyStr(payload["__manualId"]) ELSE uuid
        copied == WithPayloadFields(payload)
        named == IF ~Truthy(copied["transaction"])
                 THEN Put(copied, "transaction", "MANUAL-" \o Prefix8Upper(manual_id))
                 ELSE copied
        created == Put(Put(named, "__manualId", manual_id), "created_at",
                       IF Truthy(Get(payload, "created_at")) THEN payload["created_at"]
                       ELSE NowStamp(now))
        flagged == Put(created, "isManual", PyTrue)
    IN  Put(flagged, "_sortKey",
            IF Truthy(Get(payload, "_sortKey")) THEN payload["_sortKey"]
            ELSE determine_sort_key(flagged, now))

\* find_manual_by_id: index of the first manual order of that id, 0 if none
ManualIndexById(manual, manual_id) ==
    LET hits == {i \in 1..Len(manual) : Get(manual[i], "__manualId") = manual_id}
    IN  IF hits = {} THEN 0 ELSE CHOOSE i \in hits : \A j \in hits : i <= j

\* one field of update_manual_order's loop (lines 5248-5258)
ManualFieldValue(field, value) ==
    IF field \in {"Produce", "Ready", "Shipped"}
    THEN IF IsStr(value)
         THEN (IF StripLower(value) \in {"true", "1", "yes"} THEN "TRUE" ELSE "FALSE")
         ELSE (IF value = PyTrue THEN "TRUE" ELSE "FALSE")
    ELSE IF value # None THEN value ELSE ""

RECURSIVE ApplyManualUpdates(_, _, _)
ApplyManualUpdates(order, updates, i) ==
    IF i > Len(updates) THEN order
    ELSE IF updates[i][1] \notin MANUAL_ORDER_FIELDS
         THEN ApplyManualUpdates(order, updates, i + 1)
         ELSE ApplyManualUpdates(
                  Put(order, updates[i][1], ManualFieldValue(updates[i][1], updates[i][2])),
                  updates, i + 1)

----------------------------------------------------------------------------
(* Unified view: transform_orders_for_frontend *)

\* str(order.get(key, ''))
StrGet(order, key) == IF key \in DOMAIN order THEN PyStr(order[key]) ELSE ""

\* get_checkbox_string(order, primary_key, fallback_key)
get_checkbox_string(order, primary_key, fallback_key) ==
    LET value == IF Get(order, primary_key) \in {None, ""}
                 THEN Get(order, fallback_key) ELSE Get(order, primary_key)
    IN  IF value \in {None, ""} THEN "FALSE" ELSE PyStr(value)

\* get_note_string(order)
get_note_string(order) ==
    LET value == IF Get(order, "Note") \in {None, ""}
                 THEN Get(order, "importantnote") ELSE Get(order, "Note")
    IN  IF value \in {None, ""} THEN "" ELSE PyStr(value)

\* the fields of a transformed synced order the model carries, before _sortKey
Transformed(order) ==
    [buyername |-> StrGet(order, "Name"),
     Produce |-> get_checkbox_string(order, "Produce", "Kesildi"),
     Ready |-> get_checkbox_string(order, "Ready", "Hazir"),
     Shipped |-> get_checkbox_string(order, "Shipped", "Gonderildi"),
     Note |-> get_note_string(order),
     tarih |-> StrGet(order, "Data"),
     transaction |-> StrGet(order, "Transaction ID"),
     isManual |-> PyFalse]

\* the loop over orders_cache (lines 3367-3408); each reading of the clock is
\* later than the one before
RECURSIVE TransformLoop(_, _, _, _)
TransformLoop(cache, i, now, acc) ==
    IF i > Len(cache) THEN acc
    ELSE LET transformed == Transformed(cache[i])
         IN  TransformLoop(cache, i + 1,
                           IF SortKeyReadsClock(transformed) THEN now + 1 ELSE now,
                           Append(acc, Put(transformed, "_sortKey",
                                           determine_sort_key(transformed, now))))

\* manual_entry.setdefault("isManual", True); setdefault("_sortKey", ...)
ManualPayload(entry, now) ==
    LET marked == IF "isManual" \in DOMAIN entry THEN entry ELSE Put(entry, "isManual", PyTrue)
    IN  IF "_sortKey" \in DOMAIN marked THEN marked
        ELSE Put(marked, "_sortKey", Or(Get(marked, "created_at"), NowStamp(now)))

\* the place of a sort key in the order of Python strings, for the keys the
\* model can produce
SortKeyRank(key) ==
    CASE ~Truthy(key) -> 0                                  \* item.get("_sortKey") or ""
      [] key = "2025-01-02T00:00:00" -> 1
      [] key = "2025-01-03T00:00:00" -> 2
      [] key = "2025-01-05T00:00:00" -> 3
      [] key = "2025-02-01T00:00:00" -> 4
      [] \E t \in 0..99 : key = NowStamp(t) -> 1000 + (CHOOSE t \in 0..99 : key = NowStamp(t))
      [] OTHER -> 5000                                      \* a word: after every digit

\* combined.sort(key=..., reverse=True): descending, items of one key in the
\* order they had (the sort is stable)
RECURSIVE SortBySortKeyDesc(_, _)
SortBySortKeyDesc(combined, ranks) ==
    IF ranks = {} THEN <<>>
    ELSE LET top == CHOOSE r \in ranks : \A q \in ranks : q <= r
         IN  SelectSeq(combined, LAMBDA item : SortKeyRank(Get(item, "_sortKey")) = top)
                 \o SortBySortKeyDesc(combined, ranks \ {top})

\* faulty variant: the synced orders are put before the manual ones
view_synced_first(manual_payloads, transformed_orders) == transformed_orders \o manual_payloads

\* combined = manual_payloads + transformed_orders
Combined(manual_payloads, transformed_orders) == manual_payloads \o transformed_orders

\* the list the view returns; the cache is read from the file when it is empty
transform_orders_for_frontend(cache, file, manual, now) ==
    LET loaded == IF cache = <<>> THEN file ELSE cache
        transformed_orders == TransformLoop(loaded, 1, now, <<>>)
        manual_payloads == [i \in 1..Len(manual) |-> ManualPayload(manual[i], now)]
        combined == Combined(manual_payloads, transformed_orders)
    IN  SortBySortKeyDesc(combined,
            {SortKeyRank(Get(combined[i], "_sortKey")) : i \in 1..Len(combined)})

----------------------------------------------------------------------------
(* The dashboard aggregation, compute_dashboard_order_stats, with its
   reconciliation of the completion log *)

\* days = [today - timedelta(days=i) for i in range(29, -1, -1)]
TrendDays == 30

\* days[i].isoformat(); every reading of the model's clock falls on 2026-10-31
WindowDay(i) == "2026-10-" \o (IF i + 1 < 10 THEN "0" ELSE "") \o ToString(i + 1)

Today == WindowDay(TrendDays)

WindowDays == {WindowDay(i) : i \in 1..TrendDays}

\* try_parse_order_date(value).date().isoformat(), None when value is empty or
\* does not parse
ParsedDay(value) ==
    LET parsed == ParsedIso(value)
    IN  CASE parsed = None -> None
          [] parsed = "2025-01-02T00:00:00" -> "2025-01-02"
          [] parsed = "2025-01-03T00:00:00" -> "2025-01-03"
          [] parsed = "2025-01-05T00:00:00" -> "2025-01-05"
          [] parsed = "2025-02-01T00:00:00" -> "2025-02-01"
          [] \E t \in 0..99 : parsed = NowStamp(t) -> Today
          [] OTHER -> None

\* order.get("tarih") or order.get("tarihh") or order.get("created_at")
\*     or order.get("_sortKey"), parsed
OrderDay(order) ==
    ParsedDay(Or(Or(Or(Get(order, "tarih"), Get(order, "tarihh")),
                    Get(order, "created_at")), Get(order, "_sortKey")))

\* completion_date_from_entry(entry): the Istanbul day of completed_at
completion_date_from_entry(entry) ==
    IF entry.completed_at = <<>> THEN None
    ELSE ParsedDay(NowStamp(entry.completed_at[1]))

\* faulty variant: the correction leaves the timestamp in place
cleared_keeps_timestamp(entry) == [entry EXCEPT !.is_complete = FALSE]

\* faulty variant: the correction also empties the history
cleared_with_history(entry) ==
    [entry EXCEPT !.is_complete = FALSE, !.completed_at = <<>>, !.history = <<>>]

\* entry["is_complete"] = False; entry["completed_at"] = None
ClearedEntry(entry) == [entry EXCEPT !.is_complete = FALSE, !.completed_at = <<>>]

\* one pass of the loop over order_list (lines 3450-3504)
StatsStep(acc, order) ==
    LET identifier == get_order_identifier(order, None)
        is_complete_now == is_order_marked_complete(order)
        has_entry == Truthy(identifier) /\ identifier \in DOMAIN acc.log
        entry == acc.log[identifier]
        clears == has_entry /\ ~is_complete_now /\ entry.is_complete
        dated == /\ has_entry /\ is_complete_now
                 /\ entry.is_complete /\ entry.completed_at # <<>>
        from_entry == IF dated THEN completion_date_from_entry(entry) ELSE None
        log == IF clears \/ (dated /\ from_entry = None)
               THEN Put(acc.log, identifier, ClearedEntry(entry))
               ELSE acc.log
        completion_date == IF is_complete_now /\ from_entry = None
                           THEN OrderDay(order) ELSE from_entry
        counted == is_complete_now /\ completion_date \in WindowDays
    IN  [log |-> log,
         completed |-> IF is_complete_now THEN acc.completed + 1 ELSE acc.completed,
         pending |-> IF is_complete_now THEN acc.pending ELSE acc.pending + 1,
         day_counts |-> IF counted
                        THEN [acc.day_counts EXCEPT ![completion_date] = @ + 1]
                        ELSE acc.day_counts]

RECURSIVE StatsLoop(_, _, _)
StatsLoop(order_list, i, acc) ==
    IF i > Len(order_list) THEN acc
    ELSE StatsLoop(order_list, i + 1, StatsStep(acc, order_list[i]))

\* the log after the pass and the completed, pending and monthly_trend values
\* of the result
compute_dashboard_order_stats(order_list, log) ==
    LET done == StatsLoop(order_list, 1,
                          [log |-> log, completed |-> 0, pending |-> 0,
                           day_counts |-> [day \in WindowDays |-> 0]])
    IN  [log |-> done.log,
         completed |-> done.completed,
         pending |-> done.pending,
         monthly_trend |-> [i \in 1..TrendDays |->
                               [date |-> WindowDay(i), count |-> done.day_counts[WindowDay(i)]]]]

----------------------------------------------------------------------------
(* The three merge entry points: the cache, the cache file and the value
   returned, given what fetch_orders_from_sheet() gave *)

\* fetch_orders_from_sheet() returns None (is_none) or a list of rows
FetchFailed == [is_none |-> TRUE, rows |-> <<>>]

Fetched(rows) == [is_none |-> FALSE, rows |-> rows]

\* update_cache(): no return statement; save_cache() after the merge
update_cache(cache, file, fetched) ==
    IF fetched.is_none
    THEN [cache |-> cache, file |-> file, returns |-> None]
    ELSE LET merged == update_cache_merge(cache, fetched.rows)
         IN  [cache |-> merged, file |-> merged, returns |-> None]

\* incremental_update_cache(): True when something was added or replaced;
\* new_ids_order is the order the set new_order_ids is iterated in
incremental_update_cache(cache, file, fetched, new_ids_order) ==
    IF fetched.is_none
    THEN [cache |-> cache, file |-> file, returns |-> PyFalse]
    ELSE LET updated_order_ids == UpdatedOrderIds(cache, fetched.rows)
             appended == [i \in 1..Len(new_ids_order) |-> NewOrdersMap(fetched.rows, new_ids_order[i])]
             merged == incremental_merge(cache, fetched.rows, appended)
         IN  IF Len(new_ids_order) > 0 \/ updated_order_ids # {}
             THEN [cache |-> merged, file |-> merged, returns |-> PyTrue]
             ELSE [cache |-> merged, file |-> file, returns |-> PyFalse]

\* sync_latest_orders(): no return statement; save_cache() after the merge
sync_latest_orders(cache, file, fetched) ==
    IF fetched.is_none
    THEN [cache |-> cache, file |-> file, returns |-> None]
    ELSE LET merged == sync_latest_merge(cache, fetched.rows)
         IN  [cache |-> merged, file |-> merged, returns |-> None]

----------------------------------------------------------------------------
(* Inputs *)

SheetRow(transaction_id, name, data, flag) ==
    [k \in {"Transaction ID", "Name", "Data", "Kesildi", "Hazir", "Gonderildi", "importantnote"} |->
        CASE k = "Transaction ID" -> transaction_id
          [] k = "Name" -> name
          [] k = "Data" -> data
          [] k = "importantnote" -> ""
          [] OTHER -> flag]

\* the rows a fetched sheet is made of
SheetRows ==
    { SheetRow("T1", "Alice", "01/02/2025", "FALSE"),
      SheetRow("T1", "Alice-renamed", "01/02/2025", "FALSE"),
      SheetRow("T2", "Bob", "01/02/2025", "FALSE"),
      SheetRow("", "Carol", "01/02/2025", "FALSE") }

Batches == UNION {[1..n -> SheetRows] : n \in 0..MaxBatch}

Fetches == {FetchFailed} \cup {Fetched(b) : b \in Batches}

\* the updates of an edit request, as (field, value) pairs in dict order
EditUpdates ==
    { << <<"Produce", PyTrue>> >>,
      << <<"Produce", PyFalse>> >>,
      << <<"Note", "hello">> >> }

----------------------------------------------------------------------------
(* State machine *)

\* no merge is running on a timer thread
MergeIdle == [pc |-> "idle", kind |-> "", new_orders |-> <<>>, updated_cache |-> <<>>]

\* no edit request is being served
EditIdle ==
    [pc |-> "idle", transaction |-> "", updates |-> <<>>, order |-> 0, held |-> <<>>,
     overlapped |-> FALSE]

Init ==
    /\ orders_cache = <<>>
    /\ cache_file = <<>>
    /\ manual_orders = <<>>
    /\ order_completion_log = <<>>
    /\ clock = 0
    /\ uuids = 0
    /\ merge_thread = MergeIdle
    /\ edit_request = EditIdle

UpdateCache(fetched) ==
    LET r == update_cache(orders_cache, cache_file, fetched)
    IN  /\ orders_cache' = r.cache
        /\ cache_file' = r.file
        /\ UNCHANGED <<merge_thread, edit_request, manual_orders, order_completion_log, clock, uuids>>

IncrementalUpdateCache(fetched) ==
    \E new_ids_order \in NewIdOrders(NewOrdersMapIds(fetched.rows) \ CachedIds(orders_cache)) :
        LET r == incremental_update_cache(orders_cache, cache_file, fetched, new_ids_order)
        IN  /\ orders_cache' = r.cache
            /\ cache_file' = r.file
            /\ UNCHANGED <<merge_thread, edit_request, manual_orders, order_completion_log, clock, uuids>>

SyncLatestOrders(fetched) ==
    LET r == sync_latest_orders(orders_cache, cache_file, fetched)
    IN  /\ orders_cache' = r.cache
        /\ cache_file' = r.file
        /\ UNCHANGED <<merge_thread, edit_request, manual_orders, order_completion_log, clock, uuids>>

\* PUT /api/orders/{transaction}/edit
EditOrderFields(transaction, updates, is_admin) ==
    LET order_index == OrderIndex(orders_cache, transaction)
        manual_index == ManualIndexByTransaction(manual_orders, transaction)
        in_cache == order_index # 0
        order == IF in_cache THEN orders_cache[order_index] ELSE manual_orders[manual_index]
        applied == ApplyUpdates(order, updates, 1, in_cache, is_admin)
        keyed == IF in_cache \/ applied.refused THEN applied.order
                 ELSE Put(applied.order, "_sortKey", determine_sort_key(applied.order, clock + 1))
        key_reads == ~in_cache /\ ~applied.refused /\ SortKeyReadsClock(applied.order)
        after_key == IF key_reads THEN clock + 1 ELSE clock
        completes == ~applied.refused /\ TrackerCompletes(order_completion_log, keyed, transaction)
    IN  IF ~in_cache /\ manual_index = 0
        THEN UNCHANGED vars
        ELSE /\ orders_cache' = IF in_cache THEN [orders_cache EXCEPT ![order_index] = keyed]
                                ELSE orders_cache
             /\ manual_orders' = IF in_cache THEN manual_orders
                                 ELSE [manual_orders EXCEPT ![manual_index] = keyed]
             /\ cache_file' = IF in_cache /\ ~applied.refused THEN orders_cache' ELSE cache_file
             /\ order_completion_log' =
                    IF applied.refused THEN order_completion_log
                    ELSE update_order_completion_tracking(order_completion_log, keyed,
                                                          transaction, after_key + 1)
             /\ clock' = IF completes THEN after_key + 1 ELSE after_key
             /\ UNCHANGED <<merge_thread, edit_request, uuids>>

\* POST /api/orders/manual
CreateManualOrder(payload) ==
    LET draws == BuildDrawsUuid(payload)
        reads == BuildReadsClock(payload)
        after_build == IF reads THEN clock + 1 ELSE clock
        order == build_manual_order(payload, Uuid4(uuids + 1), clock + 1)
        others == SelectSeq(manual_orders, LAMBDA e : Get(e, "__manualId") # order["__manualId"])
        completes == TrackerCompletes(order_completion_log, order, Get(order, "transaction"))
    IN  /\ manual_orders' = Append(others, order)
        /\ order_completion_log' =
               update_order_completion_tracking(order_completion_log, order,
                                                Get(order, "transaction"), after_build + 1)
        /\ clock' = IF completes THEN after_build + 1 ELSE after_build
        /\ uuids' = IF draws THEN uuids + 1 ELSE uuids
        /\ UNCHANGED <<merge_thread, edit_request, orders_cache, cache_file>>

\* PUT /api/orders/manual/{manual_id}
UpdateManualOrder(manual_id, updates) ==
    LET index == ManualIndexById(manual_orders, manual_id)
        order == manual_orders[index]
        previous_identifier == get_order_identifier(order, None)
        written == ApplyManualUpdates(order, updates, 1)
        reads == SortKeyReadsClock(written)
        after_key == IF reads THEN clock + 1 ELSE clock
        keyed == Put(written, "_sortKey", determine_sort_key(written, clock + 1))
        completes == TrackerCompletes(order_completion_log, keyed, Get(keyed, "transaction"))
        tracked == update_order_completion_tracking(order_completion_log, keyed,
                                                    Get(keyed, "transaction"), after_key + 1)
        new_identifier == get_order_identifier(keyed, None)
    IN  IF index = 0
        THEN UNCHANGED vars
        ELSE /\ manual_orders' = [manual_orders EXCEPT ![index] = keyed]
             /\ order_completion_log' =
                    IF Truthy(previous_identifier) /\ Truthy(new_identifier)
                       /\ previous_identifier # new_identifier
                    THEN remove_order_completion_entry(tracked, previous_identifier)
                    ELSE tracked
             /\ clock' = IF completes THEN after_key + 1 ELSE after_key
             /\ UNCHANGED <<merge_thread, edit_request, orders_cache, cache_file, uuids>>

\* DELETE /api/orders/manual/{manual_id}
DeleteManualOrder(manual_id, is_admin) ==
    LET index == ManualIndexById(manual_orders, manual_id)
    IN  IF ~is_admin \/ index = 0
        THEN UNCHANGED vars
        ELSE /\ manual_orders' = [i \in 1..(Len(manual_orders) - 1) |->
                                     IF i < index THEN manual_orders[i] ELSE manual_orders[i + 1]]
             /\ order_completion_log' =
                    remove_order_completion_entry(
                        remove_order_completion_entry(order_completion_log,
                            get_order_identifier(manual_orders[index], None)),
                        manual_id)
             /\ UNCHANGED <<merge_thread, edit_request, orders_cache, cache_file, clock, uuids>>

\* faulty variant: the manual payloads of the view are the dicts of the store
payloads_shared(manual) == [i \in 1..Len(manual) |-> i]

\* manual_payloads = [copy.deepcopy(entry) for entry in manual_orders]: for
\* each payload, the index in manual_orders of the dict it is, 0 for a new dict
PayloadSources(manual) == [i \in 1..Len(manual) |-> 0]

\* GET /api/orders: the view is built (the cache is read from the file when it
\* is empty); the caller then writes a field of the k-th manual payload of the
\* list it was given
GetOrders(k, field, value) ==
    LET sources == PayloadSources(manual_orders)
        written == IF k \in 1..Len(sources) THEN sources[k] ELSE 0
    IN  /\ orders_cache' = IF orders_cache = <<>> THEN cache_file ELSE orders_cache
        /\ manual_orders' = IF written = 0 THEN manual_orders
                            ELSE [manual_orders EXCEPT ![written] = Put(@, field, value)]
        /\ UNCHANGED <<cache_file, order_completion_log, clock, uuids,
                       merge_thread, edit_request>>

\* GET /api/dashboard/orders-stats: the view is built (the cache is read from
\* the file when it is empty) and aggregated
GetOrdersDashboardStats ==
    LET orders == transform_orders_for_frontend(orders_cache, cache_file,
                                                manual_orders, clock + 1)
    IN  /\ orders_cache' = IF orders_cache = <<>> THEN cache_file ELSE orders_cache
        /\ order_completion_log' =
               compute_dashboard_order_stats(orders, order_completion_log).log
        /\ UNCHANGED <<merge_thread, edit_request, cache_file, manual_orders, clock, uuids>>

----------------------------------------------------------------------------
(* A merge on a timer thread (schedule_updates, schedule_quick_sync) and an
   edit request, step by step. Nothing in update_cache, sync_latest_orders
   or edit_order_fields takes a lock, so the steps of the two interleave.
   A dict of the cache is an object: the list a merge builds holds the
   fetched dicts, with the preserved values copied in, and the very dicts of
   the cache for the orders the fetch does not have. *)

\* the dict at a place of the merge's local list: a fetched dict (alias 0) or
\* the dict at index alias of orders_cache
Fresh(row) == [alias |-> 0, row |-> row]

Alias(index) == [alias |-> index, row |-> <<>>]

\* the cached dicts kept by the second loop: those of an identifier not done
KeptAliases(cache, done) ==
    LET kept == SelectSeq([i \in 1..Len(cache) |-> i], LAMBDA i :
                    /\ Truthy(CachedTransaction(cache[i]))
                    /\ CachedTransaction(cache[i]) \notin done)
    IN  [k \in 1..Len(kept) |-> Alias(kept[k])]

\* updated_cache / updated_orders as the loops leave it
BuiltList(kind, cache, new_orders) ==
    LET r == IF kind = "update_cache"
             THEN FullNewLoop(new_orders, cache, 1, <<>>, {})
             ELSE LatestLoop(latest_20(new_orders), cache, 1, <<>>, {})
    IN  [k \in 1..Len(r[1]) |-> Fresh(r[1][k])] \o KeptAliases(cache, r[2])

\* the list as values
Resolve(built, cache) ==
    [k \in 1..Len(built) |->
        IF built[k].alias = 0 THEN built[k].row ELSE cache[built[k].alias]]

\* where the dict at index of the old list is in the new list, 0 if nowhere
IndexAfter(built, index) ==
    LET at == {k \in 1..Len(built) : built[k].alias = index /\ index # 0}
    IN  IF at = {} THEN 0 ELSE CHOOSE k \in at : TRUE

EditInFlight == edit_request.pc \in {"found", "mutated"}

\* new_orders = fetch_orders_from_sheet()
TimerFetch(kind, fetched) ==
    /\ merge_thread.pc = "idle"
    /\ merge_thread' = IF fetched.is_none THEN MergeIdle
                       ELSE [MergeIdle EXCEPT !.pc = "fetched", !.kind = kind,
                                              !.new_orders = fetched.rows]
    /\ edit_request' = IF EditInFlight /\ ~fetched.is_none
                       THEN [edit_request EXCEPT !.overlapped = TRUE] ELSE edit_request
    /\ UNCHANGED <<orders_cache, cache_file, manual_orders, order_completion_log, clock, uuids>>

\* the two loops that build the local list from orders_cache
TimerBuild ==
    /\ merge_thread.pc = "fetched"
    /\ merge_thread' = [merge_thread EXCEPT
                            !.pc = "built",
                            !.new_orders = <<>>,
                            !.updated_cache = BuiltList(merge_thread.kind, orders_cache,
                                                        merge_thread.new_orders)]
    /\ edit_request' = IF EditInFlight
                       THEN [edit_request EXCEPT !.overlapped = TRUE] ELSE edit_request
    /\ UNCHANGED <<orders_cache, cache_file, manual_orders, order_completion_log, clock, uuids>>

\* orders_cache = updated_cache; a request that holds a dict of the old list
\* keeps holding it
TimerAssign ==
    /\ merge_thread.pc = "built"
    /\ orders_cache' = Resolve(merge_thread.updated_cache, orders_cache)
    /\ merge_thread' = [merge_thread EXCEPT !.pc = "assigned", !.updated_cache = <<>>]
    /\ edit_request' =
           IF EditInFlight
           THEN LET index == IndexAfter(merge_thread.updated_cache, edit_request.order)
                IN  [edit_request EXCEPT
                        !.order = index,
                        !.held = IF index = 0 /\ edit_request.order # 0
                                 THEN orders_cache[edit_request.order] ELSE @,
                        !.overlapped = TRUE]
           ELSE edit_request
    /\ UNCHANGED <<cache_file, manual_orders, order_completion_log, clock, uuids>>

\* save_cache() at the end of the merge
TimerSave ==
    /\ merge_thread.pc = "assigned"
    /\ cache_file' = orders_cache
    /\ merge_thread' = MergeIdle
    /\ edit_request' = IF EditInFlight
                       THEN [edit_request EXCEPT !.overlapped = TRUE] ELSE edit_request
    /\ UNCHANGED <<orders_cache, manual_orders, order_completion_log, clock, uuids>>

\* lines 3808-3827: the order is looked up; 404 when neither store has it
EditFind(transaction, updates) ==
    LET order_index == OrderIndex(orders_cache, transaction)
    IN  /\ edit_request.pc \in {"idle", "done"}
        /\ ManualIndexByTransaction(manual_orders, transaction) = 0
        /\ edit_request' =
               IF order_index = 0 THEN EditIdle
               ELSE [EditIdle EXCEPT !.pc = "found", !.transaction = transaction,
                                     !.updates = updates, !.order = order_index,
                                     !.overlapped = (merge_thread.pc # "idle")]
        /\ UNCHANGED <<orders_cache, cache_file, manual_orders, order_completion_log,
                       clock, uuids, merge_thread>>

\* the dict the request holds
HeldOrder == IF edit_request.order # 0 THEN orders_cache[edit_request.order]
             ELSE edit_request.held

\* lines 3837-3870: the loop writes the fields into the dict it holds
EditMutate ==
    LET written == ApplyUpdates(HeldOrder, edit_request.updates, 1, TRUE, TRUE).order
    IN  /\ edit_request.pc = "found"
        /\ orders_cache' = IF edit_request.order # 0
                           THEN [orders_cache EXCEPT ![edit_request.order] = written]
                           ELSE orders_cache
        /\ edit_request' = [edit_request EXCEPT
                                !.pc = "mutated",
                                !.held = IF edit_request.order # 0 THEN @ ELSE written]
        /\ UNCHANGED <<cache_file, manual_orders, order_completion_log, clock, uuids,
                       merge_thread>>

\* lines 3872-3877: save_cache() and update_order_completion_tracking
EditSave ==
    LET completes == TrackerCompletes(order_completion_log, HeldOrder, edit_request.transaction)
    IN  /\ edit_request.pc = "mutated"
        /\ cache_file' = orders_cache
        /\ order_completion_log' =
               update_order_completion_tracking(order_completion_log, HeldOrder,
                                                edit_request.transaction, clock + 1)
        /\ clock' = IF completes THEN clock + 1 ELSE clock
        /\ edit_request' = [edit_request EXCEPT !.pc = "done", !.order = 0, !.held = <<>>]
        /\ UNCHANGED <<orders_cache, manual_orders, uuids, merge_thread>>

----------------------------------------------------------------------------
(* Requests served while the files cannot be written *)

\* save_cache(): the write is inside try / except Exception, which prints
save_cache_raises(write_fails) == FALSE

\* save_order_completion_log(): the write is inside try / except Exception
save_order_completion_log_raises(write_fails) == FALSE

\* save_manual_orders(): no handler around open() and json.dump()
save_manual_orders_raises(write_fails) == write_fails

\* the file a failed write leaves: what it had when open() raised, nothing
\* readable (load_cache then gives []) when json.dump raised
FailedWrite(file) == {file, <<>>}

\* POST /api/orders/sync: "success" unless update_cache() raises
sync_orders_status(fetched, write_fails) ==
    IF ~fetched.is_none /\ save_cache_raises(write_fails) THEN "error" ELSE "success"

\* POST /api/orders/sync by the administrator
SyncOrders(fetched, write_fails) ==
    LET r == update_cache(orders_cache, cache_file, fetched)
    IN  /\ orders_cache' = r.cache
        /\ cache_file' \in IF write_fails /\ ~fetched.is_none
                           THEN FailedWrite(cache_file) ELSE {r.file}
        /\ UNCHANGED <<merge_thread, edit_request, manual_orders, order_completion_log, clock, uuids>>

\* POST /api/orders/sync while a timer thread may hold the list it built:
\* the merge binds orders_cache to a new list and changes no dict of the old
\* one, so the timer's list keeps the values it has
SyncOrdersMeanwhile(fetched) ==
    LET r == update_cache(orders_cache, cache_file, fetched)
        held == Resolve(merge_thread.updated_cache, orders_cache)
    IN  /\ ~EditInFlight
        /\ orders_cache' = r.cache
        /\ cache_file' = r.file
        /\ merge_thread' = IF fetched.is_none THEN merge_thread
                           ELSE [merge_thread EXCEPT !.updated_cache =
                                    [k \in 1..Len(held) |-> Fresh(held[k])]]
        /\ UNCHANGED <<edit_request, manual_orders, order_completion_log, clock, uuids>>

\* the answer of PUT /api/orders/{transaction}/edit
edit_order_fields_status(transaction, updates, is_admin, write_fails) ==
    LET order_index == OrderIndex(orders_cache, transaction)
        manual_index == ManualIndexByTransaction(manual_orders, transaction)
        in_cache == order_index # 0
        order == IF in_cache THEN orders_cache[order_index] ELSE manual_orders[manual_index]
    IN  IF ~in_cache /\ manual_index = 0 THEN "404"
        ELSE IF ApplyUpdates(order, updates, 1, in_cache, is_admin).refused THEN "403"
        ELSE IF in_cache /\ save_cache_raises(write_fails) THEN "500"
        ELSE IF ~in_cache /\ save_manual_orders_raises(write_fails) THEN "500"
        ELSE IF save_order_completion_log_raises(write_fails) THEN "500"
        ELSE "success"

\* PUT /api/orders/{transaction}/edit: an exception of save_manual_orders()
\* leaves the handler before update_order_completion_tracking()
EditOrderFieldsWriting(transaction, updates, is_admin, write_fails) ==
    LET order_index == OrderIndex(orders_cache, transaction)
        manual_index == ManualIndexByTransaction(manual_orders, transaction)
        in_cache == order_index # 0
        order == IF in_cache THEN orders_cache[order_index] ELSE manual_orders[manual_index]
        applied == ApplyUpdates(order, updates, 1, in_cache, is_admin)
        keyed == Put(applied.order, "_sortKey", determine_sort_key(applied.order, clock + 1))
        after_key == IF SortKeyReadsClock(applied.order) THEN clock + 1 ELSE clock
        completes == TrackerCompletes(order_completion_log, applied.order, transaction)
    IN  IF ~write_fails \/ (~in_cache /\ manual_index = 0) \/ applied.refused
        THEN EditOrderFields(transaction, updates, is_admin)
        ELSE IF in_cache
        THEN /\ orders_cache' = [orders_cache EXCEPT ![order_index] = applied.order]
             /\ cache_file' \in FailedWrite(cache_file)
             /\ order_completion_log' =
                    update_order_completion_tracking(order_completion_log, applied.order,
                                                     transaction, clock + 1)
             /\ clock' = IF completes THEN clock + 1 ELSE clock
             /\ UNCHANGED <<merge_thread, edit_request, manual_orders, uuids>>
        ELSE /\ manual_orders' = [manual_orders EXCEPT ![manual_index] = keyed]
             /\ clock' = after_key
             /\ UNCHANGED <<merge_thread, edit_request, orders_cache, cache_file,
                            order_completion_log, uuids>>

----------------------------------------------------------------------------
(* Specifications *)

\* the merger and the edit endpoint
NextMerge ==
    \/ \E fetched \in Fetches : UpdateCache(fetched)
    \/ \E fetched \in Fetches : IncrementalUpdateCache(fetched)
    \/ \E fetched \in Fetches : SyncLatestOrders(fetched)
    \/ \E transaction \in {"T1", "T2"}, updates \in EditUpdates, is_admin \in BOOLEAN :
           EditOrderFields(transaction, updates, is_admin) /\ clock' <= MaxClock

SpecMerge == Init /\ [][NextMerge]_vars

\* one flag of one request
FlagUpdates ==
    {<< <<field, value>> >> : field \in {"Produce", "Ready", "Shipped"}, value \in {PyTrue, PyFalse}}

\* one synced order, its stage flags edited one at a time; the clock is read
\* by the tracker alone, so it counts the transitions into complete
NextTracker ==
    \/ UpdateCache(Fetched(<<SheetRow("T1", "Alice", "01/02/2025", "FALSE")>>))
    \/ \E updates \in FlagUpdates, is_admin \in BOOLEAN :
           EditOrderFields("T1", updates, is_admin) /\ clock' <= MaxCompletions

SpecTracker == Init /\ [][NextTracker]_vars

\* the sheet of the store specification: two orders of different dates, the
\* second with its three stage columns ticked in the sheet
StoreBatches ==
    LET s1 == SheetRow("T1", "Alice", "01/02/2025", "FALSE")
        s2 == SheetRow("T2", "Bob", "03.01.2025", "TRUE")
    IN  {<<s1, s1>>, <<s2, s1>>}

StoreFetches == {FetchFailed} \cup {Fetched(b) : b \in StoreBatches}

\* request bodies of POST /api/orders/manual
ManualPayloads ==
    { <<>>,
      [transaction |-> "T1", tarih |-> "01/02/2025"] }

\* request bodies of PUT /api/orders/manual/{manual_id}, as (field, value)
\* pairs in dict order
ManualUpdates ==
    { << <<"Produce", "TRUE">>, <<"Ready", "TRUE">>, <<"Shipped", "TRUE">> >>,
      << <<"transaction", "T2">> >> }

ManualIds == {Uuid4(n) : n \in 1..MaxManual}

StoreEdits ==
    { << <<"Produce", PyTrue>>, <<"Ready", PyTrue>>, <<"Shipped", PyTrue>> >>,
      << <<"Produce", PyFalse>> >> }

\* the stores together: merges, field edits and the manual orders
Next ==
    \/ \E fetched \in StoreFetches : UpdateCache(fetched)
    \/ \E fetched \in StoreFetches : IncrementalUpdateCache(fetched)
    \/ \E fetched \in StoreFetches : SyncLatestOrders(fetched)
    \/ \E transaction \in {"T1", "MANUAL-3F2A9C1E"}, updates \in StoreEdits, is_admin \in BOOLEAN :
           EditOrderFields(transaction, updates, is_admin) /\ clock' <= MaxClock
    \/ \E payload \in ManualPayloads :
           /\ CreateManualOrder(payload)
           /\ clock' <= MaxClock
           /\ uuids' <= MaxManual
           /\ Len(manual_orders') <= MaxManual
    \/ \E manual_id \in ManualIds, updates \in ManualUpdates :
           UpdateManualOrder(manual_id, updates) /\ clock' <= MaxClock
    \/ \E manual_id \in ManualIds, is_admin \in BOOLEAN :
           DeleteManualOrder(manual_id, is_admin)

Spec == Init /\ [][Next]_vars

\* request bodies of POST /api/orders/manual in the manual-store
\* specification: nothing supplied, a manual id supplied, and a transaction
\* with stage flags as a boolean and as mixed-case strings
StorePayloads ==
    { <<>>,
      ("__manualId" :> "order-7"),
      [transaction |-> "T1", Produce |-> PyTrue, Ready |-> "True", Shipped |-> "TRUE"] }

\* request bodies of PUT /api/orders/manual/{manual_id}
StoreUpdates ==
    { << <<"Produce", "yes">>, <<"Ready", PyTrue>>, <<"Shipped", " true ">> >>,
      << <<"Produce", "False">> >>,
      << <<"transaction", "T2">> >> }

StoreIds == ManualIds \cup {"order-7"}

StoreTransactions == {"MANUAL-3F2A9C1E", "MANUAL-ORDER-7", "T1"}

\* request bodies of PUT /api/orders/{transaction}/edit on a manual order
StoreFlagEdits ==
    { << <<"Ready", "Yes">> >>,
      << <<"Produce", PyFalse>> >> }

\* the manual store alone: create, update, delete, and field edits that
\* reach a manual order
NextManual ==
    \/ \E payload \in StorePayloads :
           /\ CreateManualOrder(payload)
           /\ clock' <= MaxClock
           /\ uuids' <= MaxManual
           /\ Len(manual_orders') <= MaxManual
    \/ \E manual_id \in StoreIds, updates \in StoreUpdates :
           UpdateManualOrder(manual_id, updates) /\ clock' <= MaxClock
    \/ \E manual_id \in StoreIds, is_admin \in BOOLEAN :
           DeleteManualOrder(manual_id, is_admin)
    \/ \E transaction \in StoreTransactions, updates \in StoreFlagEdits, is_admin \in BOOLEAN :
           EditOrderFields(transaction, updates, is_admin) /\ clock' <= MaxClock

SpecManual == Init /\ [][NextManual]_vars

\* request bodies of POST /api/orders/manual that name the manual id: the
\* same id once with a complete order and once under another transaction
NamedPayloads ==
    { <<>>,
      ("__manualId" :> "order-7") @@
          [transaction |-> "T1", Produce |-> "TRUE", Ready |-> "TRUE", Shipped |-> "TRUE"],
      ("__manualId" :> "order-7") @@ [transaction |-> "T2"],
      [transaction |-> "T1", Produce |-> "TRUE", Ready |-> "TRUE", Shipped |-> "TRUE"] }

\* the three handlers of the manual orders and nothing else
NextManualOrders ==
    \/ \E payload \in NamedPayloads :
           /\ CreateManualOrder(payload)
           /\ clock' <= MaxClock
           /\ uuids' <= MaxManual
           /\ Len(manual_orders') <= MaxManual
    \/ \E manual_id \in StoreIds, updates \in StoreUpdates :
           UpdateManualOrder(manual_id, updates) /\ clock' <= MaxClock
    \/ \E manual_id \in StoreIds, is_admin \in BOOLEAN :
           DeleteManualOrder(manual_id, is_admin)

SpecManualOrders == Init /\ [][NextManualOrders]_vars

\* the updates of the manual orders that set stage flags
DashboardUpdates == {updates \in StoreUpdates : updates[1][1] \in {"Produce", "Ready", "Shipped"}}

\* the dashboard over both stores: full merges, field edits, the manual orders
\* and the aggregation
NextDashboard ==
    \/ \E fetched \in StoreFetches : UpdateCache(fetched)
    \/ \E transaction \in {"T1", "T2"}, updates \in StoreEdits :
           EditOrderFields(transaction, updates, TRUE) /\ clock' <= MaxClock
    \/ \E payload \in StorePayloads :
           /\ CreateManualOrder(payload)
           /\ clock' <= MaxClock
           /\ uuids' <= MaxManual
           /\ Len(manual_orders') <= MaxManual
    \/ \E manual_id \in StoreIds, updates \in DashboardUpdates :
           UpdateManualOrder(manual_id, updates) /\ clock' <= MaxClock
    \/ \E manual_id \in StoreIds : DeleteManualOrder(manual_id, TRUE)
    \/ GetOrdersDashboardStats
    \/ \E k \in 1..MaxManual : GetOrders(k, "Produce", "TRUE")

SpecDashboard == Init /\ [][NextDashboard]_vars

\* the batches of the race: each has the order the request edits
RaceBatches ==
    { <<SheetRow("T1", "Alice", "01/02/2025", "FALSE")>>,
      <<SheetRow("T2", "Bob", "01/02/2025", "FALSE"),
        SheetRow("T1", "Alice-renamed", "01/02/2025", "FALSE")>> }

RaceFetches == {FetchFailed} \cup {Fetched(b) : b \in RaceBatches}

\* a timer merge and an edit request, interleaved step by step
NextRace ==
    \/ \E kind \in {"update_cache", "sync_latest_orders"}, fetched \in RaceFetches :
           TimerFetch(kind, fetched)
    \/ TimerBuild
    \/ TimerAssign
    \/ TimerSave
    \/ \E updates \in EditUpdates : EditFind("T1", updates)
    \/ EditMutate
    \/ EditSave /\ clock' <= MaxClock

SpecRace == Init /\ [][NextRace]_vars

\* the sheet as POST /api/orders/sync reads it
SyncFetches == RaceFetches \cup {Fetched(<<SheetRow("T3", "Carol", "01/02/2025", "FALSE")>>)}

\* a merge on a timer thread, step by step, and the merges that requests
\* start on the server's thread meanwhile
NextTimers ==
    \/ \E kind \in {"update_cache", "sync_latest_orders"}, fetched \in RaceFetches :
           TimerFetch(kind, fetched)
    \/ TimerBuild
    \/ TimerAssign
    \/ TimerSave
    \/ \E fetched \in SyncFetches : SyncOrdersMeanwhile(fetched)

SpecTimers == Init /\ [][NextTimers]_vars

\* sheets whose rows differ in the Data column: two known formats, a date
\* with neither separator and an empty one
DatedRows ==
    { SheetRow("T1", "Alice", "01/02/2025", "FALSE"),
      SheetRow("T2", "Bob", "03.01.2025", "FALSE"),
      SheetRow("T3", "Chen", "2025-01-05", "FALSE"),
      SheetRow("T4", "Dana", "", "FALSE") }

DatedBatches == UNION {[1..n -> DatedRows] : n \in 0..MaxBatch}

DatedFetches == {FetchFailed} \cup {Fetched(b) : b \in DatedBatches}

\* the quick sync over the dated sheets
NextLatest == \E fetched \in DatedFetches : SyncLatestOrders(fetched)

SpecLatest == Init /\ [][NextLatest]_vars

\* sheets whose rows name their identifier differently: under 'Transaction ID'
\* only, under both keys with different values, under 'transaction' only
IdentityRows ==
    LET sheet == SheetRow("T1", "Alice", "01/02/2025", "FALSE")
        both == Put(SheetRow("T2", "Bob", "01/02/2025", "FALSE"), "transaction", "X2")
        bare == SheetRow("T3", "Chen", "01/02/2025", "FALSE")
        lower == Put([k \in (DOMAIN bare) \ {"Transaction ID"} |-> bare[k]], "transaction", "T3")
    IN  {sheet, both, lower}

IdentityFetches == {Fetched(b) : b \in UNION {[1..n -> IdentityRows] : n \in 1..MaxBatch}}

\* merges, edits and the aggregation over those sheets; a row whose two keys
\* differ is appended again by every merge, so the cache is kept short
NextIdentity ==
    \/ \E fetched \in IdentityFetches :
           UpdateCache(fetched) /\ Len(orders_cache') <= MaxCache
    \/ \E transaction \in {"T1", "X2", "T3"}, updates \in StoreEdits :
           EditOrderFields(transaction, updates, TRUE) /\ clock' <= MaxClock
    \/ GetOrdersDashboardStats

SpecIdentity == Init /\ [][NextIdentity]_vars

\* request bodies of PUT /api/orders/{transaction}/edit with several fields,
\* in dict order
RequestEdits ==
    { << <<"Produce", PyTrue>> >>,
      << <<"Produce", PyFalse>> >>,
      << <<"Ready", PyTrue>>, <<"Note", "hello">>, <<"Produce", PyFalse>> >> }

\* a cached order, a manual order and an identifier no store has
EditedTransactions == {"T1", "MANUAL-3F2A9C1E", "T9"}

\* edits by administrators and by other users, of cached orders, of manual
\* orders and of an identifier no store has
NextEdit ==
    \/ UpdateCache(Fetched(<<SheetRow("T1", "Alice", "01/02/2025", "FALSE")>>))
    \/ SyncLatestOrders(Fetched(<<SheetRow("T1", "Alice", "01/02/2025", "FALSE"),
                                  SheetRow("T1", "Bob", "01/02/2025", "FALSE")>>))
    \/ \E payload \in ManualPayloads :
           /\ CreateManualOrder(payload)
           /\ clock' <= MaxClock
           /\ uuids' <= MaxManual
           /\ Len(manual_orders') <= MaxManual
    \/ \E transaction \in EditedTransactions,
          updates \in RequestEdits, is_admin \in BOOLEAN :
           EditOrderFields(transaction, updates, is_admin) /\ clock' <= MaxClock

SpecEdit == Init /\ [][NextEdit]_vars

\* merges and edits while the disk accepts writes and while it refuses them
NextDisk ==
    \/ \E fetched \in {FetchFailed, Fetched(<<SheetRow("T1", "Alice", "01/02/2025", "FALSE")>>)},
          write_fails \in BOOLEAN :
           SyncOrders(fetched, write_fails)
    \/ \E payload \in ManualPayloads :
           /\ CreateManualOrder(payload)
           /\ clock' <= MaxClock
           /\ uuids' <= MaxManual
           /\ Len(manual_orders') <= MaxManual
    \/ \E transaction \in EditedTransactions, updates \in RequestEdits,
          is_admin \in BOOLEAN, write_fails \in BOOLEAN :
           /\ EditOrderFieldsWriting(transaction, updates, is_admin, write_fails)
           /\ clock' <= MaxClock

SpecDisk == Init /\ [][NextDisk]_vars

----------------------------------------------------------------------------
(* Reading an order the way the view does *)

StageFlag(order, g) ==
    get_checkbox_string(order, EDITABLE_FIELD_GROUPS[g][1], EDITABLE_FIELD_GROUPS[g][2])

----------------------------------------------------------------------------
(* Properties of the merger *)

\* rows of a sheet newer than every row of SheetRows, enough to fill the
\* latest-N subset but for one place
FillerRows ==
    [i \in 1..(LatestN - 1) |-> SheetRow("F" \o ToString(i), "Filler", "03.01.2025", "FALSE")]

\* batches longer than the latest-N subset: a batch of the model that fills the
\* one place left and more, followed by the filler rows
LongBatches == {b \o FillerRows : b \in {x \in Batches : Len(x) > 1}}

\* every way incremental_update_cache can go for a batch
IncrementalResults(cache, file, rows) ==
    {incremental_update_cache(cache, file, Fetched(rows), new_ids_order) :
        new_ids_order \in NewIdOrders(NewOrdersMapIds(rows) \ CachedIds(cache))}

\* what the three modes can make of the cache for a batch
MergeResults(cache, file, rows) ==
    {update_cache(cache, file, Fetched(rows)).cache,
     sync_latest_orders(cache, file, Fetched(rows)).cache}
    \cup {r.cache : r \in IncrementalResults(cache, file, rows)}

\* the order carries a user's edit: a true stage flag and a note
Edited(order) ==
    /\ \E g \in 1..3 : StageFlag(order, g) = "TRUE"
    /\ get_note_string(order) # ""

\* some order of that identifier in the list keeps the true flags and the note
KeepsEdit(order, after) ==
    \E j \in 1..Len(after) :
        /\ CachedTransaction(after[j]) = CachedTransaction(order)
        /\ \A g \in 1..3 : StageFlag(order, g) = "TRUE" => StageFlag(after[j], g) = "TRUE"
        /\ get_note_string(after[j]) = get_note_string(order)

\* C1: in every merge mode, a cached order with a true stage flag and a note
\* keeps them when the fetched batch has a row of the same identifier with
\* default flags and an empty note
C1_EditPreservation ==
    \A rows \in Batches :
        \A i \in 1..Len(orders_cache) :
            ( /\ Edited(orders_cache[i])
              /\ CachedTransaction(orders_cache[i]) \in NewOrdersMapIds(rows) )
            => \A after \in MergeResults(orders_cache, cache_file, rows) :
                   KeepsEdit(orders_cache[i], after)

UniqueIds(cache) ==
    \A i, j \in 1..Len(cache) :
        (i # j /\ Truthy(CachedTransaction(cache[i])))
        => CachedTransaction(cache[i]) # CachedTransaction(cache[j])

\* C1 holds of the caches that have no identifier twice
C1_IfUnique == UniqueIds(orders_cache) => C1_EditPreservation

\* C2: running update_cache twice with the same fetched batch leaves the
\* cache that running it once leaves, and that cache has no identifier twice
C2_FullReplaceIdempotent ==
    \A rows \in Batches :
        LET once == update_cache(orders_cache, cache_file, Fetched(rows))
            twice == update_cache(once.cache, once.file, Fetched(rows))
        IN  /\ twice.cache = once.cache
            /\ twice.file = once.file
            /\ UniqueIds(twice.cache)

\* two orders show the same fields: the same values outside the stage flags
\* and the note, and the same flags and note as the view reads them
SameAsRead(a, b) ==
    /\ \A key \in ((DOMAIN a) \cup (DOMAIN b)) \ EditableKeys : Get(a, key) = Get(b, key)
    /\ \A g \in 1..3 : StageFlag(a, g) = StageFlag(b, g)
    /\ get_note_string(a) = get_note_string(b)

\* what remains of C2 in the code: a second run changes no field as it is
\* read and no order's place (it adds the display aliases to the rows)
C2_SameAsRead ==
    \A rows \in Batches :
        LET once == update_cache(orders_cache, cache_file, Fetched(rows)).cache
            twice == update_cache(once, once, Fetched(rows)).cache
        IN  /\ Len(twice) = Len(once)
            /\ \A i \in 1..Len(once) : SameAsRead(once[i], twice[i])

\* the identifiers of the rows the quick sync takes from a batch
LatestIds(rows) == CachedIds(latest_20(rows))

\* C3: after a full replace or a quick sync with a fetched batch, every
\* identifier of the cache is still in the cache
C3_NoCachedOrderDiscarded ==
    /\ \A rows \in Batches :
           CachedIds(orders_cache)
              \subseteq CachedIds(update_cache(orders_cache, cache_file, Fetched(rows)).cache)
    /\ \A rows \in Batches \cup LongBatches :
           CachedIds(orders_cache)
              \subseteq CachedIds(sync_latest_orders(orders_cache, cache_file, Fetched(rows)).cache)

\* the cache holds an order the batch does not have, which survives the full
\* replace, and an order a long batch has outside its latest-N rows, which
\* survives the quick sync
C3_Witness ==
    /\ \E rows \in Batches :
           \E orphan \in CachedIds(orders_cache) \ NewOrdersMapIds(rows) :
               /\ rows # <<>>
               /\ orphan \in CachedIds(update_cache(orders_cache, cache_file, Fetched(rows)).cache)
    /\ \E rows \in LongBatches :
           \E cut \in CachedIds(orders_cache) :
               /\ Len(rows) > LatestN
               /\ cut \in NewOrdersMapIds(rows) \ LatestIds(rows)
               /\ cut \in CachedIds(sync_latest_orders(orders_cache, cache_file, Fetched(rows)).cache)

\* a batch that brings an order the cache does not have
FreshBatch == <<SheetRow("T9", "Zoe", "01/02/2025", "FALSE")>>

\* the call left both caches alone and returned a false value that the same
\* mode does not return when the fetch brings a new order
FailedNoOp(failed, succeeded) ==
    /\ failed.cache = orders_cache
    /\ failed.file = cache_file
    /\ ~Truthy(failed.returns)
    /\ failed.returns # succeeded.returns

\* C8: when the fetch returns None or no rows, each of the three modes leaves
\* orders_cache and the saved cache as they were and reports failure
C8_FetchFailureNoOp ==
    \A fetched \in {FetchFailed, Fetched(<<>>)} :
        /\ FailedNoOp(update_cache(orders_cache, cache_file, fetched),
                      update_cache(orders_cache, cache_file, Fetched(FreshBatch)))
        /\ FailedNoOp(sync_latest_orders(orders_cache, cache_file, fetched),
                      sync_latest_orders(orders_cache, cache_file, Fetched(FreshBatch)))
        /\ FailedNoOp(incremental_update_cache(orders_cache, cache_file, fetched, <<>>),
                      incremental_update_cache(orders_cache, cache_file, Fetched(FreshBatch),
                                               <<"T9">>))

\* the part of C8 the incremental mode meets
C8_IncrementalOnly ==
    \A fetched \in {FetchFailed, Fetched(<<>>)} :
        FailedNoOp(incremental_update_cache(orders_cache, cache_file, fetched, <<>>),
                   incremental_update_cache(orders_cache, cache_file, Fetched(FreshBatch),
                                            <<"T9">>))

\* C10: incremental_update_cache puts, at the position of a cached row whose
\* fetched row differs in a non-editable field, the fetched values with the
\* cached stage flags and note; every other cached row stays as it was
C10_IncrementalInPlace ==
    \A rows \in Batches :
        \A r \in IncrementalResults(orders_cache, cache_file, rows) :
            /\ Len(r.cache) >= Len(orders_cache)
            /\ \A i \in 1..Len(orders_cache) :
                   LET cached == orders_cache[i]
                       id == CachedTransaction(cached)
                   IN  IF /\ id \in NewOrdersMapIds(rows)
                          /\ order_changed(cached, NewOrdersMap(rows, id))
                       THEN /\ \A key \in (DOMAIN NewOrdersMap(rows, id)) \ EditableKeys :
                                   Get(r.cache[i], key) = NewOrdersMap(rows, id)[key]
                            /\ \A g \in 1..3 : StageFlag(r.cache[i], g) = StageFlag(cached, g)
                            /\ get_note_string(r.cache[i]) = get_note_string(cached)
                       ELSE r.cache[i] = cached

\* C10 holds of the caches that have no identifier twice
C10_IfUnique == UniqueIds(orders_cache) => C10_IncrementalInPlace

----------------------------------------------------------------------------
(* Properties of the completion tracker, under SpecTracker *)

\* the first order of T1 in a cache, as the tracker is given it by the edit
TrackedOrder(cache) == cache[OrderIndex(cache, "T1")]

LogEntry(log) == log["T1"]

\* C4: the tracker appends one timestamp and sets completed_at to it when the
\* three flags are true and the stored is_complete was false; when the stored
\* flag was true and the flags are no longer all true it sets is_complete false
\* and completed_at null and leaves the history; otherwise it changes nothing
C4_EdgeTriggered ==
    [][ OrderIndex(orders_cache', "T1") # 0 =>
        LET was_complete == WasComplete(order_completion_log, "T1")
            is_complete_now == is_order_marked_complete(TrackedOrder(orders_cache'))
            history == HistoryOf(order_completion_log, "T1")
        IN  /\ (is_complete_now /\ ~was_complete) =>
                   /\ LogEntry(order_completion_log').is_complete
                   /\ LogEntry(order_completion_log').completed_at = <<clock'>>
                   /\ clock' = clock + 1
                   /\ Len(history) < HistoryCap =>
                          LogEntry(order_completion_log').history = Append(history, clock')
            /\ (~is_complete_now /\ was_complete) =>
                   /\ ~LogEntry(order_completion_log').is_complete
                   /\ LogEntry(order_completion_log').completed_at = <<>>
                   /\ LogEntry(order_completion_log').history = history
            /\ (is_complete_now = was_complete) =>
                   order_completion_log' = order_completion_log
      ]_vars

\* the order was completed, reopened and completed again: two timestamps
C4_Witness ==
    /\ "T1" \in DOMAIN order_completion_log
    /\ LogEntry(order_completion_log).is_complete
    /\ LogEntry(order_completion_log).history = <<1, 2>>
    /\ LogEntry(order_completion_log).completed_at = <<2>>

\* C5: a history holds at most 50 timestamps, and they are the most recent
\* ones in order: the last of them is the latest transition into complete
C5_HistoryCap ==
    \A identifier \in DOMAIN order_completion_log :
        LET history == order_completion_log[identifier].history
        IN  /\ Len(history) <= HistoryCap
            /\ Len(history) = IF clock < HistoryCap THEN clock ELSE HistoryCap
            /\ \A i \in 1..Len(history) : history[i] = clock - Len(history) + i

\* the 51st transition into complete is recorded and the first is gone
C5_Witness ==
    /\ "T1" \in DOMAIN order_completion_log
    /\ clock = HistoryCap + 1
    /\ Len(LogEntry(order_completion_log).history) = HistoryCap
    /\ LogEntry(order_completion_log).history[1] = 2
    /\ LogEntry(order_completion_log).history[HistoryCap] = HistoryCap + 1

----------------------------------------------------------------------------
(* Properties of the stores and the view, under Spec *)

\* C6: for every identifier that has an order in the cache or the manual
\* store, the log's is_complete for it (false when there is no entry) is the
\* AND of the three stage flags of that order
C6_LogMatchesFlags ==
    /\ \A i \in 1..Len(orders_cache) :
           LET identifier == get_order_identifier(orders_cache[i], None)
           IN  Truthy(identifier) =>
                   (WasComplete(order_completion_log, identifier)
                        <=> is_order_marked_complete(orders_cache[i]))
    /\ \A i \in 1..Len(manual_orders) :
           LET identifier == get_order_identifier(manual_orders[i], None)
           IN  Truthy(identifier) =>
                   (WasComplete(order_completion_log, identifier)
                        <=> is_order_marked_complete(manual_orders[i]))

\* no two orders of a store have the same identifier
UniqueIdentifiers(store) ==
    \A i, j \in 1..Len(store) :
        (i # j /\ Truthy(get_order_identifier(store[i], None)))
        => get_order_identifier(store[i], None) # get_order_identifier(store[j], None)

\* C9: the cache never holds two orders of one identifier, and neither does
\* the manual store
C9_IdentifierUniqueness ==
    /\ UniqueIdentifiers(orders_cache)
    /\ UniqueIdentifiers(manual_orders)

\* the manual store's half of C9
C9_ManualStoreOnly == UniqueIdentifiers(manual_orders)

\* the view of the current state
ViewNow == transform_orders_for_frontend(orders_cache, cache_file, manual_orders, clock + 1)

ViewRank(item) == SortKeyRank(Get(item, "_sortKey"))

\* the sort key the view gives a cached order
SyncedRank(order) == SortKeyRank(determine_sort_key(Transformed(order), clock + 1))

Project(items, key) == [i \in 1..Len(items) |-> Get(items[i], key)]

\* C7: the view is sorted descending by _sortKey; at equal keys a manual
\* order comes before a synced one, manual orders are in the order of the
\* manual store and synced orders in the order of the cache
C7_ViewOrdering ==
    LET view == ViewNow
        ranks == {ViewRank(view[i]) : i \in 1..Len(view)}
        ManualAt(items, r) ==
            SelectSeq(items, LAMBDA x : Get(x, "isManual") = PyTrue /\ ViewRank(x) = r)
        SyncedAt(items, r) ==
            SelectSeq(items, LAMBDA x : Get(x, "isManual") = PyFalse /\ ViewRank(x) = r)
    IN  /\ Len(view) = Len(manual_orders) + Len(orders_cache)
        /\ \A i, j \in 1..Len(view) : i < j => ViewRank(view[i]) >= ViewRank(view[j])
        /\ \A i, j \in 1..Len(view) :
               ( /\ ViewRank(view[i]) = ViewRank(view[j])
                 /\ Get(view[i], "isManual") = PyTrue
                 /\ Get(view[j], "isManual") = PyFalse ) => i < j
        /\ \A r \in ranks :
               /\ Project(ManualAt(view, r), "__manualId")
                      = Project(ManualAt(manual_orders, r), "__manualId")
               /\ Project(SyncedAt(view, r), "transaction")
                      = Project(SelectSeq(orders_cache, LAMBDA o : SyncedRank(o) = r),
                                "Transaction ID")

\* two manual orders and a synced order have one sort key, and another order
\* has an earlier one
C7_Witness ==
    LET view == ViewNow
    IN  \E i, j, k, l \in 1..Len(view) :
            /\ i < j /\ j < k
            /\ ViewRank(view[i]) = ViewRank(view[k])
            /\ ViewRank(view[j]) = ViewRank(view[k])
            /\ Get(view[i], "isManual") = PyTrue
            /\ Get(view[j], "isManual") = PyTrue
            /\ Get(view[k], "isManual") = PyFalse
            /\ ViewRank(view[l]) < ViewRank(view[k])

----------------------------------------------------------------------------
(* Properties of the manual store, under SpecManual *)

\* eight uppercase hexadecimal characters, among the prefixes of the model
UpperHex8(prefix) == prefix \in {"3F2A9C1E", "B07D44E2", "0C9E8A7F", "77AA01BC"}

\* the record a create call stored: the last of the manual store
Created == manual_orders'[Len(manual_orders')]

\* the record of a create without a transaction has the generated form
GeneratedForm(payload, order) ==
    /\ \E prefix \in {Prefix8Upper(id) : id \in StoreIds \cup {Uuid4(uuids + 1)}} :
           /\ UpperHex8(prefix)
           /\ order["transaction"] = "MANUAL-" \o prefix
    /\ order["isManual"] = PyTrue
    /\ Truthy(order["__manualId"])
    /\ \A flag \in {"Produce", "Ready", "Shipped"} :
           flag \notin DOMAIN payload => order[flag] = "FALSE"

\* C11: a create with no (or an empty) transaction stores a record whose
\* transaction is MANUAL- and 8 uppercase hexadecimal characters, with isManual
\* true, a non-empty __manualId and the flags not supplied set to "FALSE"
C11_ManualIdentifierForm ==
    [][ \A payload \in StorePayloads :
            (~Truthy(Get(payload, "transaction")) /\ CreateManualOrder(payload))
            => GeneratedForm(payload, Created) ]_vars

\* C11 holds of the payloads that supply no manual id
C11_WhenIdGenerated ==
    [][ \A payload \in StorePayloads :
            ( /\ ~Truthy(Get(payload, "transaction"))
              /\ ~Truthy(Get(payload, "__manualId"))
              /\ CreateManualOrder(payload) )
            => GeneratedForm(payload, Created) ]_vars

\* the order delete_manual_order removes: the first one carrying the manual id
Removed(manual_id) == manual_orders[ManualIndexById(manual_orders, manual_id)]

DeleteSucceeds(manual_id) ==
    /\ ManualIndexById(manual_orders, manual_id) # 0
    /\ DeleteManualOrder(manual_id, TRUE)

\* C12: after a successful delete_manual_order the store holds no order with
\* the deleted manual id, the completion log has no entry under the removed
\* record's resolved identifier, and the other manual orders are the same
\* records in the same order
C12_DeleteRemovesOrderAndLog ==
    [][ \A manual_id \in StoreIds :
            DeleteSucceeds(manual_id) =>
                /\ \A i \in 1..Len(manual_orders') :
                       Get(manual_orders'[i], "__manualId") # manual_id
                /\ get_order_identifier(Removed(manual_id), None)
                       \notin DOMAIN order_completion_log'
                /\ manual_orders' =
                       SelectSeq(manual_orders,
                                 LAMBDA e : Get(e, "__manualId") # manual_id) ]_vars

\* the first generated order was deleted after the second, complete, order was
\* created under the same transaction: the shared log entry went with it
C12_Witness ==
    /\ uuids = 2
    /\ Len(manual_orders) = 1
    /\ manual_orders[1]["__manualId"] = Uuid4(2)
    /\ is_order_marked_complete(manual_orders[1])
    /\ get_order_identifier(manual_orders[1], None) \notin DOMAIN order_completion_log

----------------------------------------------------------------------------
(* Properties of the dashboard aggregation *)

StatsNow == compute_dashboard_order_stats(ViewNow, order_completion_log)

RECURSIVE SumCounts(_, _)
SumCounts(trend, i) ==
    IF i > Len(trend) THEN 0 ELSE trend[i].count + SumCounts(trend, i + 1)

\* the completion events the log records: an identifier and the time it
\* became complete; every time of the model falls within the window
CompletionEvents ==
    UNION { {<<identifier, order_completion_log[identifier].history[k]>> :
                k \in 1..Len(order_completion_log[identifier].history)} :
            identifier \in DOMAIN order_completion_log }

CompletedInView ==
    {i \in 1..Len(ViewNow) : is_order_marked_complete(ViewNow[i])}

CountsAndLength ==
    /\ StatsNow.completed = Cardinality(CompletedInView)
    /\ StatsNow.pending = Len(ViewNow) - Cardinality(CompletedInView)
    /\ Len(StatsNow.monthly_trend) = TrendDays

\* C13: over every view the aggregation returns completed = the number of
\* orders whose three stage flags are all true, pending = the number of the
\* other orders, and a daily trend of 30 entries whose counts sum to the
\* number of distinct completion events within the 30-day window
C13_DashboardAggregation ==
    /\ CountsAndLength
    /\ SumCounts(StatsNow.monthly_trend, 1) = Cardinality(CompletionEvents)

\* C13 without the sum of the trend: the two counts and the length hold
C13_CountsAndLength == CountsAndLength

----------------------------------------------------------------------------
(* Properties of a merge racing an edit *)

\* the order of the request's transaction in the list carries what the
\* request wrote
CarriesEdit(cache) ==
    LET index == OrderIndex(cache, edit_request.transaction)
    IN  /\ index # 0
        /\ cache[index] =
               ApplyUpdates(cache[index], edit_request.updates, 1, TRUE, TRUE).order

BothFinished == edit_request.pc = "done" /\ merge_thread.pc = "idle"

\* C14: whatever the interleaving of a timer merge (update_cache or
\* sync_latest_orders) with an edit of an order that is in the cache and in
\* the fetch, once both have finished the cached order carries the edited
\* field, in orders_cache and in the cache file
C14_MergeRacingEditKeepsEdit ==
    BothFinished => CarriesEdit(orders_cache) /\ CarriesEdit(cache_file)

\* C14 holds of the requests no step of a merge overlapped
C14_WhenSerial ==
    (BothFinished /\ ~edit_request.overlapped)
    => CarriesEdit(orders_cache) /\ CarriesEdit(cache_file)

\* a request overlapped by a merge has finished, and so has the merge
C14_RaceHappened == BothFinished /\ edit_request.overlapped

----------------------------------------------------------------------------
(* Properties of the stage flags the edits and the manual store write *)

StageFlagNames == {"Produce", "Ready", "Shipped"}

FlagLiteral(value) == value \in {"TRUE", "FALSE"}

\* the stage flags among the fields of a request body given as pairs
FlagsOf(updates) == {updates[k][1] : k \in 1..Len(updates)} \cap StageFlagNames

\* C15: after any edits of fields and any creations and updates of manual
\* orders, whatever the values of the payloads (booleans, mixed-case
\* strings), every stage flag of a manual order holds exactly "TRUE" or
\* "FALSE"
C15_FlagLiterals ==
    \A i \in 1..Len(manual_orders) :
        \A flag \in StageFlagNames : FlagLiteral(Get(manual_orders[i], flag))

\* C15 holds of the flags edit_order_fields and update_manual_order write
C15_EditsAndUpdates ==
    [][ /\ \A manual_id \in StoreIds, updates \in StoreUpdates :
              ( /\ ManualIndexById(manual_orders, manual_id) # 0
                /\ UpdateManualOrder(manual_id, updates) )
              => \A flag \in FlagsOf(updates) :
                     FlagLiteral(manual_orders'[ManualIndexById(manual_orders, manual_id)][flag])
        /\ \A transaction \in StoreTransactions, updates \in StoreFlagEdits :
              ( /\ ManualIndexByTransaction(manual_orders, transaction) # 0
                /\ EditOrderFields(transaction, updates, TRUE) )
              => \A flag \in FlagsOf(updates) :
                     FlagLiteral(manual_orders'[ManualIndexByTransaction(manual_orders,
                                                                        transaction)][flag])
      ]_vars

----------------------------------------------------------------------------
(* Frame properties of the view and of the aggregation *)

ViewIdentifier(i) == get_order_identifier(ViewNow[i], None)

\* C17: after the aggregation has run over the view, for every identifier of
\* the view the log's is_complete equals the AND of the order's live stage
\* flags, whether the log said incomplete (or had no entry) for an order that
\* is complete or said complete for an order that is not
C17_ReconciliationBothDirections ==
    \A i \in 1..Len(ViewNow) :
        Truthy(ViewIdentifier(i))
        => (WasComplete(StatsNow.log, ViewIdentifier(i))
                <=> is_order_marked_complete(ViewNow[i]))

\* C17 holds in one direction: after the aggregation no order that is not
\* complete has an entry that says complete
C17_ClearsStaleComplete ==
    \A i \in 1..Len(ViewNow) :
        (Truthy(ViewIdentifier(i)) /\ ~is_order_marked_complete(ViewNow[i]))
        => ~WasComplete(StatsNow.log, ViewIdentifier(i))

\* an order that is not complete has an entry that says complete
C17_StaleComplete ==
    \E i \in 1..Len(ViewNow) :
        /\ Truthy(ViewIdentifier(i))
        /\ ~is_order_marked_complete(ViewNow[i])
        /\ WasComplete(order_completion_log, ViewIdentifier(i))

\* C18: the aggregation adds no key to the completion log and deletes none,
\* and leaves the history of every entry as it was; only is_complete and
\* completed_at of an entry may change
C18_ReconciliationKeepsHistory ==
    /\ DOMAIN StatsNow.log = DOMAIN order_completion_log
    /\ \A identifier \in DOMAIN order_completion_log :
           /\ DOMAIN StatsNow.log[identifier] = DOMAIN order_completion_log[identifier]
           /\ StatsNow.log[identifier].history = order_completion_log[identifier].history

\* the aggregation corrects an entry that has a history
C18_Witness ==
    \E identifier \in DOMAIN order_completion_log :
        /\ StatsNow.log[identifier] # order_completion_log[identifier]
        /\ Len(order_completion_log[identifier].history) > 0

----------------------------------------------------------------------------
(* Properties of the rows without an identifier and of the latest-N order *)

IdentifierLess(row) == ~Truthy(FetchedTransaction(row))

IdentifierLessRows(rows) == SelectSeq(rows, IdentifierLess)

\* in incremental and latest-N modes no row without an identifier is added
NotAddedByDeltaModes(rows) ==
    /\ IdentifierLessRows(sync_latest_orders(orders_cache, cache_file, Fetched(rows)).cache)
           = IdentifierLessRows(orders_cache)
    /\ \A r \in IncrementalResults(orders_cache, cache_file, rows) :
           IdentifierLessRows(r.cache) = IdentifierLessRows(orders_cache)

\* C19: the fetched rows without a resolvable identifier are in the cache
\* update_cache produces, as they were fetched and in the order of the
\* sheet; incremental_update_cache and sync_latest_orders do not add them
C19_IdentifierLessRows ==
    \A rows \in Batches :
        /\ IdentifierLessRows(update_cache(orders_cache, cache_file, Fetched(rows)).cache)
               = IdentifierLessRows(rows)
        /\ NotAddedByDeltaModes(rows)

\* C19 holds of the incremental and latest-N modes
C19_DeltaModes == \A rows \in Batches : NotAddedByDeltaModes(rows)

\* the date of a row under the formats the quick sync knows, %m/%d/%Y and
\* %d.%m.%Y; the oldest date when the Data column is empty or parses under
\* neither
KnownFormatDate(order) ==
    LET date_str == Get(order, "Data")
    IN  CASE date_str = "01/02/2025" -> 20250102
          [] date_str = "02/01/2025" -> 20250201
          [] date_str = "03.01.2025" -> 20250103
          [] OTHER -> DateMin

RECURSIVE SortByKnownDateDesc(_, _)
SortByKnownDateDesc(rows, dates) ==
    IF dates = {} THEN <<>>
    ELSE LET latest == CHOOSE d \in dates : \A e \in dates : e <= d
         IN  SelectSeq(rows, LAMBDA o : KnownFormatDate(o) = latest)
                 \o SortByKnownDateDesc(rows, dates \ {latest})

\* the first LatestN rows by parsed date, latest first, the rows without a
\* parsed date last
OldestLastSubset(rows) ==
    LET sorted == SortByKnownDateDesc(rows, {KnownFormatDate(rows[i]) : i \in 1..Len(rows)})
    IN  SubSeq(sorted, 1, IF Len(sorted) < LatestN THEN Len(sorted) ELSE LatestN)

HasUnseparatedDate(rows) ==
    \E i \in 1..Len(rows) : Get(rows[i], "Data") = "2025-01-05"

\* the identifiers at the head of the cache the quick sync produces, as many
\* as the subset has rows
MergedHead(rows) ==
    LET merged == sync_latest_orders(orders_cache, cache_file, Fetched(rows)).cache
    IN  Project(SubSeq(merged, 1, Len(OldestLastSubset(rows))), "Transaction ID")

\* C20: sync_latest_orders takes the fetched rows by parsed date, latest
\* first, a row whose date parses under no known format (an empty date, a
\* date in another format) ranking as the oldest, and merges the first N in
\* that order
C20_LatestSelectionOrder ==
    \A rows \in DatedBatches :
        MergedHead(rows) = Project(OldestLastSubset(rows), "Transaction ID")

\* C20 holds of the sheets whose dates all have a separator or are empty
C20_WhenSeparated ==
    \A rows \in DatedBatches :
        ~HasUnseparatedDate(rows)
        => MergedHead(rows) = Project(OldestLastSubset(rows), "Transaction ID")

----------------------------------------------------------------------------
(* Properties of the order and of the return value of the merges *)

\* what tells one row from another in the model: identifier and name
RowKey(row) == <<FetchedTransaction(row), Get(row, "Name")>>

RowKeys(rows) == [i \in 1..Len(rows) |-> RowKey(rows[i])]

\* the rows in source order, a row dropped when an earlier row has its
\* identifier
FirstOccurrences(rows) ==
    LET first == SelectSeq([i \in 1..Len(rows) |-> i], LAMBDA i :
                     \/ IdentifierLess(rows[i])
                     \/ \A j \in 1..(i - 1) :
                            FetchedTransaction(rows[j]) # FetchedTransaction(rows[i]))
    IN  [k \in 1..Len(first) |-> rows[first[k]]]

\* the cached rows whose identifier is not in the fetch, in cache order
NotFetched(cache, rows) ==
    SelectSeq(cache, LAMBDA o : CachedTransaction(o) \notin NewOrdersMapIds(rows))

FullReplaceOrder(rows) ==
    RowKeys(update_cache(orders_cache, cache_file, Fetched(rows)).cache)
        = RowKeys(FirstOccurrences(rows)) \o RowKeys(NotFetched(orders_cache, rows))

\* C21: the cache update_cache produces is the fetched rows in source order,
\* the first row of each identifier only, followed by the cached rows whose
\* identifier is not in the fetch, in the order they had
C21_FullReplaceOrder == \A rows \in Batches : FullReplaceOrder(rows)

\* C21 holds of the sheets whose rows all have an identifier
C21_WhenIdentified ==
    \A rows \in Batches :
        (\A i \in 1..Len(rows) : ~IdentifierLess(rows[i])) => FullReplaceOrder(rows)

\* every way incremental_update_cache can go, the failed fetch included
IncrementalOutcomes ==
    {incremental_update_cache(orders_cache, cache_file, FetchFailed, <<>>)}
    \cup UNION {IncrementalResults(orders_cache, cache_file, rows) : rows \in Batches}

\* the call appended a row or replaced a cached one
AppendedOrReplaced(r) ==
    \/ Len(r.cache) > Len(orders_cache)
    \/ \E i \in 1..Len(orders_cache) : r.cache[i] # orders_cache[i]

\* C22: incremental_update_cache returns True exactly when it appended a new
\* row or replaced a cached row and False otherwise, the failed fetch
\* included; when it returns False the cache is as it was and is not saved
C22_IncrementalReturnValue ==
    \A r \in IncrementalOutcomes :
        /\ r.returns \in {PyTrue, PyFalse}
        /\ r.returns = PyTrue <=> AppendedOrReplaced(r)
        /\ r.returns = PyFalse => (r.cache = orders_cache /\ r.file = cache_file)

\* one sheet has a cached row changed and no new row, and the call returns
\* True; another has a cached row unchanged, and the call returns False
C22_Witness ==
    /\ \E rows \in Batches :
           /\ Len(rows) > 0
           /\ NewOrdersMapIds(rows) \subseteq CachedIds(orders_cache)
           /\ \A r \in IncrementalResults(orders_cache, cache_file, rows) :
                  r.returns = PyTrue
    /\ \E rows \in Batches :
           /\ NewOrdersMapIds(rows) # {}
           /\ \A r \in IncrementalResults(orders_cache, cache_file, rows) :
                  r.returns = PyFalse

----------------------------------------------------------------------------
(* Properties of the identifier across the components *)

\* the merger matching the order as a fetched row and as a cached row, and
\* the aggregator resolving its view item, all use identifier
OneIdentity(order, identifier) ==
    /\ FetchedTransaction(order) = identifier
    /\ CachedTransaction(order) = identifier
    /\ get_order_identifier(Transformed(order), None) = identifier

\* C23: for every order the identifier the merger matches it by, as a fetched
\* row and as a cached row, the key the tracker writes and the identifier
\* resolved from its view item all equal get_order_identifier(order), also
\* for a row with 'transaction' and 'Transaction ID' of different values and
\* for a row with 'transaction' only
C23_OneIdentity ==
    /\ \A i \in 1..Len(orders_cache) :
           OneIdentity(orders_cache[i], get_order_identifier(orders_cache[i], None))
    /\ \A key \in DOMAIN order_completion_log :
           \E i \in 1..Len(orders_cache) : get_order_identifier(orders_cache[i], None) = key

\* C23 holds of the rows that name their identifier under 'Transaction ID' only
C23_TransactionIdOnly ==
    \A i \in 1..Len(orders_cache) :
        "transaction" \notin DOMAIN orders_cache[i]
        => OneIdentity(orders_cache[i], get_order_identifier(orders_cache[i], None))

----------------------------------------------------------------------------
(* Properties of the edit requests *)

\* the order the request is about: the first cached order of the
\* transaction, else the manual order of it
EditTarget(transaction) ==
    IF OrderIndex(orders_cache, transaction) # 0
    THEN orders_cache[OrderIndex(orders_cache, transaction)]
    ELSE manual_orders[ManualIndexByTransaction(manual_orders, transaction)]

EditNotFound(transaction) ==
    /\ OrderIndex(orders_cache, transaction) = 0
    /\ ManualIndexByTransaction(manual_orders, transaction) = 0

\* the request ends with the 404 or the 403
EditRejected(transaction, updates, is_admin) ==
    \/ EditNotFound(transaction)
    \/ ApplyUpdates(EditTarget(transaction), updates, 1,
                    OrderIndex(orders_cache, transaction) # 0, is_admin).refused

StateRetained == UNCHANGED <<orders_cache, manual_orders, cache_file, order_completion_log>>

\* C24: when edit_order_fields fails, for an unknown identifier or for a user
\* who is not an administrator and asks to clear a true Produce flag, alone
\* or with other fields in the request, the orders in memory, the saved cache
\* and the completion log are as before the call
C24_RejectedEditRetainsState ==
    [][ \A transaction \in EditedTransactions,
           updates \in RequestEdits, is_admin \in BOOLEAN :
            ( /\ EditRejected(transaction, updates, is_admin)
              /\ EditOrderFields(transaction, updates, is_admin) )
            => StateRetained ]_vars

\* C24 holds of the requests whose first field is the refused one, and of the
\* unknown identifiers
C24_WhenRefusedFirst ==
    [][ \A transaction \in EditedTransactions,
           updates \in RequestEdits, is_admin \in BOOLEAN :
            ( /\ EditRejected(transaction, updates, is_admin)
              /\ updates[1][1] = "Produce"
              /\ EditOrderFields(transaction, updates, is_admin) )
            => StateRetained ]_vars


----------------------------------------------------------------------------
(* Properties of failed writes *)

\* the request reaches a write of the cache file, the manual-order file or
\* the completion-log file
EditWrites(transaction, updates, is_admin) ==
    edit_order_fields_status(transaction, updates, is_admin, FALSE) = "success"

\* the orders in memory after the edit, had the writes succeeded
EditedInMemory(transaction, updates, is_admin) ==
    LET order_index == OrderIndex(orders_cache, transaction)
        manual_index == ManualIndexByTransaction(manual_orders, transaction)
        order == IF order_index # 0 THEN orders_cache[order_index] ELSE manual_orders[manual_index]
        applied == ApplyUpdates(order, updates, 1, order_index # 0, is_admin)
    IN  IF order_index # 0
        THEN /\ orders_cache' = [orders_cache EXCEPT ![order_index] = applied.order]
             /\ manual_orders' = manual_orders
        ELSE /\ orders_cache' = orders_cache
             /\ \A key \in DOMAIN applied.order :
                    key # "_sortKey" =>
                        Get(manual_orders'[manual_index], key) = applied.order[key]

\* C25: when a write of the cache file, the manual-order file or the
\* completion-log file fails during a sync or a field edit, the caller is not
\* answered with success
C25_WriteFailureSurfaced ==
    /\ \A fetched \in {Fetched(FreshBatch)} :
           sync_orders_status(fetched, TRUE) # "success"
    /\ \A transaction \in EditedTransactions, updates \in RequestEdits, is_admin \in BOOLEAN :
           EditWrites(transaction, updates, is_admin) =>
               edit_order_fields_status(transaction, updates, is_admin, TRUE) # "success"

\* C25, for the manual-order file alone: an edit of a manual order whose write
\* fails is answered with an error
C25_ManualFileOnly ==
    \A transaction \in EditedTransactions, updates \in RequestEdits, is_admin \in BOOLEAN :
        (/\ EditWrites(transaction, updates, is_admin)
         /\ OrderIndex(orders_cache, transaction) = 0) =>
            edit_order_fields_status(transaction, updates, is_admin, TRUE) = "500"

\* C25: the orders in memory keep the edit whose write failed
C25_NotRolledBack ==
    [][ \A transaction \in EditedTransactions, updates \in RequestEdits, is_admin \in BOOLEAN :
            (/\ EditWrites(transaction, updates, is_admin)
             /\ EditOrderFieldsWriting(transaction, updates, is_admin, TRUE)) =>
                EditedInMemory(transaction, updates, is_admin) ]_vars


----------------------------------------------------------------------------
(* Properties of merges that run at the same time *)

\* the timer thread has read the cache and not yet saved its list
TimerInsideCycle == merge_thread.pc \in {"built", "assigned"}

\* the step is a merge started by POST /api/orders/sync
SyncMerges == \E fetched \in SyncFetches : ~fetched.is_none /\ SyncOrdersMeanwhile(fetched)

\* C26: no merge of a request runs while the merge of a timer is between its
\* read of the cache and its save, and, as after merges run one after the
\* other, no step takes an identified order out of the cache
C26_OneMergeAtATime ==
    [][ /\ SyncMerges => ~TimerInsideCycle
        /\ CachedIds(orders_cache) \subseteq CachedIds(orders_cache') ]_vars

\* C26, for the merges no timer overlaps: a merge that runs as one step
\* keeps every identified order of the cache
C26_SerialMergesKeepOrders ==
    [][ SyncMerges => CachedIds(orders_cache) \subseteq CachedIds(orders_cache') ]_vars

\* C26, for the cache alone: no step takes an identified order out of it
C26_NoOrderLost ==
    [][ CachedIds(orders_cache) \subseteq CachedIds(orders_cache') ]_vars


----------------------------------------------------------------------------
(* Properties of what a user who is no administrator can do *)

\* the flag the edit endpoint protects (line 3850)
ProduceSet(order) == normalize_flag_value(Or(Get(order, "Produce"), Get(order, "Kesildi")))

\* every order is still in its store, and still has Produce set if it had
ProduceAndOrdersKept ==
    /\ \A i \in 1..Len(manual_orders) :
           \E j \in 1..Len(manual_orders') :
               /\ Get(manual_orders'[j], "__manualId") = Get(manual_orders[i], "__manualId")
               /\ ProduceSet(manual_orders[i]) => ProduceSet(manual_orders'[j])
    /\ Len(orders_cache') = Len(orders_cache)
    /\ \A i \in 1..Len(orders_cache) :
           ProduceSet(orders_cache[i]) => ProduceSet(orders_cache'[i])

\* a field edit or a delete sent by a user who is no administrator
NonAdminEditOrDelete ==
    \/ \E transaction \in StoreTransactions, updates \in StoreFlagEdits :
           EditOrderFields(transaction, updates, FALSE)
    \/ \E manual_id \in StoreIds : DeleteManualOrder(manual_id, FALSE)

\* an update of a manual order: the handler takes any signed-in user
AnyUserUpdate ==
    \E manual_id \in StoreIds, updates \in StoreUpdates : UpdateManualOrder(manual_id, updates)

\* C27: no call of edit_order_fields, update_manual_order or
\* delete_manual_order by a user who is no administrator changes a true
\* Produce flag to false or deletes a manual order
C27_NonAdminCannotClearProduce ==
    [][ (NonAdminEditOrDelete \/ AnyUserUpdate) => ProduceAndOrdersKept ]_vars

\* C27, for edit_order_fields and delete_manual_order alone
C27_EditAndDelete ==
    [][ NonAdminEditOrDelete => ProduceAndOrdersKept ]_vars


----------------------------------------------------------------------------
(* Properties of the entries of the completion log *)

\* C28: every entry of the completion log that is complete has a completed_at
\* that is the last element of its history, which is not empty; every entry
\* that is not complete has no completed_at
C28_EntryShape ==
    \A identifier \in DOMAIN order_completion_log :
        LET entry == order_completion_log[identifier]
        IN  IF entry.is_complete
            THEN /\ entry.completed_at # <<>>
                 /\ Len(entry.history) > 0
                 /\ entry.completed_at[1] = entry.history[Len(entry.history)]
            ELSE entry.completed_at = <<>>

\* an order was completed, cleared and completed again, and the entry of
\* another one was cleared
C28_Witness ==
    /\ \E identifier \in DOMAIN order_completion_log :
           /\ order_completion_log[identifier].is_complete
           /\ Len(order_completion_log[identifier].history) = 2
    /\ \E identifier \in DOMAIN order_completion_log :
           /\ ~order_completion_log[identifier].is_complete
           /\ Len(order_completion_log[identifier].history) > 0


----------------------------------------------------------------------------
(* Properties of the log rows of manual orders *)

ManualIdentifiers ==
    {get_order_identifier(manual_orders[i], None) : i \in 1..Len(manual_orders)}

\* C29: every key of the completion log, all of them written for manual
\* orders, is the resolved identifier of a manual order the store has
C29_NoOrphanedLogRows == DOMAIN order_completion_log \subseteq ManualIdentifiers

\* a step that changes the transaction of a manual order through
\* update_manual_order
TransactionChanged ==
    \E manual_id \in StoreIds, updates \in StoreUpdates :
        /\ UpdateManualOrder(manual_id, updates)
        /\ ManualIndexById(manual_orders, manual_id) # 0
        /\ get_order_identifier(manual_orders'[ManualIndexById(manual_orders, manual_id)], None)
               # get_order_identifier(manual_orders[ManualIndexById(manual_orders, manual_id)], None)

\* C29, for update_manual_order alone: a change of the transaction leaves no
\* log row that was not orphaned before
C29_UpdateLeavesNoOrphan ==
    [][ (TransactionChanged /\ C29_NoOrphanedLogRows) => C29_NoOrphanedLogRows' ]_vars


----------------------------------------------------------------------------
(* Properties of the order an edit reaches *)

\* the places in the cache of the orders whose identifier is the transaction
CachedMatches(transaction) ==
    {i \in 1..Len(orders_cache) : get_order_identifier(orders_cache[i], None) = transaction}

\* the places in the manual store of the orders with the transaction
ManualMatches(transaction) ==
    {i \in 1..Len(manual_orders) : Get(manual_orders[i], "transaction") = transaction}

First(places) == CHOOSE i \in places : \A j \in places : i <= j

\* the order has what the request asked for
Carries(order, updates) ==
    \A k \in 1..Len(updates) :
        IF updates[k][1] = "Note" THEN Get(order, "Note") = updates[k][2]
        ELSE normalize_flag_value(Get(order, updates[k][1])) = requested_bool(updates[k][2])

\* the step changes the order at one place of the store and no other
OnlyChangedAt(before, after, place, updates) ==
    /\ Len(after) = Len(before)
    /\ \A i \in 1..Len(before) : i # place => after[i] = before[i]
    /\ Carries(after[place], updates)

\* C30: a successful edit_order_fields writes the fields to the first cached
\* order whose identifier is the transaction and leaves the manual store
\* alone, even when a manual order has that transaction; only when no cached
\* order matches does it write them to the manual order of the transaction;
\* every other order of both stores is as before
C30_EditTargetResolution ==
    [][ \A transaction \in EditedTransactions, updates \in RequestEdits, is_admin \in BOOLEAN :
            (/\ edit_order_fields_status(transaction, updates, is_admin, FALSE) = "success"
             /\ EditOrderFields(transaction, updates, is_admin)) =>
                IF CachedMatches(transaction) # {}
                THEN /\ manual_orders' = manual_orders
                     /\ OnlyChangedAt(orders_cache, orders_cache',
                                      First(CachedMatches(transaction)), updates)
                ELSE /\ orders_cache' = orders_cache
                     /\ ManualMatches(transaction) # {}
                     /\ OnlyChangedAt(manual_orders, manual_orders',
                                      First(ManualMatches(transaction)), updates) ]_vars

\* the cache holds two orders of T1 and the manual store one: the note went
\* to the first cached order and to no other
C30_Witness ==
    /\ Len(orders_cache) >= 2
    /\ {1, 2} \subseteq CachedMatches("T1")
    /\ ManualMatches("T1") # {}
    /\ Get(orders_cache[1], "Note") = "hello"
    /\ Get(orders_cache[2], "Note") # "hello"
    /\ \A i \in ManualMatches("T1") : Get(manual_orders[i], "Note") # "hello"

====
